---------------------------- MODULE Spec2Model ----------------------------
(***************************************************************************)
(* A model of the Asteroids emulator: the memory bus (memory.rs), the      *)
(* 6502 interpreter (cpu.rs), the Digital Vector Generator interpreter     *)
(* (display.rs), the keyboard mapping (input.rs) and the scheduler loop    *)
(* of main (main.rs).                                                      *)
(*                                                                         *)
(* Bytes are 0..255, u16 values 0..65535, i16 values -32768..32767.  The   *)
(* four byte arrays of Memory are zero-initialised by Memory::new; they    *)
(* are kept as functions that hold the non-zero cells only (a cell outside *)
(* the domain holds 0), which is the same array.                           *)
(***************************************************************************)
EXTENDS Integers, Sequences, FiniteSets, TLC

(***************************************************************************)
(* Bounds of the exploration.                                              *)
(***************************************************************************)
\* longest display list drawn for a frame, in 16-bit words
MaxListLen == 3
\* a DVG run is followed while its program counter is at most this word
MaxDvgPc == 8
\* a DVG run is followed while the frame holds fewer primitives than this
MaxPrims == 3
\* a DVG run is followed while the beam is within this distance of the origin
MaxCoord == 1100

(***************************************************************************)
(* Fixed-width arithmetic.                                                 *)
(***************************************************************************)
Pow2(n) == 2 ^ n

\* the value of a u16 reinterpreted as an i16 (Rust `as i16`)
AsI16(u) == IF u >= 32768 THEN u - 65536 ELSE u

\* an integer truncated to 16 bits and read as an i16 (Rust `as i16` of an i32)
WrapI16(n) == AsI16(n % 65536)

\* Rust integer division truncates toward zero; the divisor is positive
TruncDiv(a, b) == IF a >= 0 THEN a \div b ELSE -((-a) \div b)

InI16(n) == n >= -32768 /\ n <= 32767

RECURSIVE BitAnd(_, _)
BitAnd(a, b) ==
    IF a = 0 \/ b = 0 THEN 0
    ELSE (a % 2) * (b % 2) + 2 * BitAnd(a \div 2, b \div 2)

RECURSIVE BitOr(_, _)
BitOr(a, b) ==
    IF a = 0 THEN b
    ELSE IF b = 0 THEN a
    ELSE (IF a % 2 = 1 \/ b % 2 = 1 THEN 1 ELSE 0) + 2 * BitOr(a \div 2, b \div 2)

RECURSIVE BitXor(_, _)
BitXor(a, b) ==
    IF a = 0 THEN b
    ELSE IF b = 0 THEN a
    ELSE ((a + b) % 2) + 2 * BitXor(a \div 2, b \div 2)

(***************************************************************************)
(* memory.rs : Memory and MappedIO.                                        *)
(***************************************************************************)
GAME_RAM_SIZE == 1024
DVG_RAM_SIZE == 4096
DVG_ROM_SIZE == 2048
GAME_ROM_SIZE == 6144

\* an array of zeroes: [0; N]
ZeroArray == [j \in {} |-> 0]

\* arr[i]
Peek(arr, i) == IF i \in DOMAIN arr THEN arr[i] ELSE 0

\* arr[i] = byte
Poke(arr, i, byte) ==
    [j \in (IF byte = 0 THEN DOMAIN arr \ {i} ELSE DOMAIN arr \cup {i}) |->
        IF j = i THEN byte ELSE arr[j]]

\* MappedIO::new
NewMappedIO ==
    [clck3khz |-> 0, halt |-> 0, swhyper |-> 0, swfire |-> 0,
     sw1start |-> 0, swthrust |-> 0, swrotrght |-> 0, swrotleft |-> 0,
     godvg |-> 0, sndexp |-> 0, sndthump |-> 0, sndsaucr |-> 0,
     sndsfire |-> 0, sndselsau |-> 0, sndthrust |-> 0, sndfire |-> 0,
     sndbonus |-> 0, sndreset |-> 0]

\* Memory::new, the two ROM arrays read from the ROM file
NewMemory(dvg_rom, game_rom) ==
    [game_ram |-> ZeroArray, dvg_ram |-> ZeroArray,
     dvg_rom |-> dvg_rom, game_rom |-> game_rom,
     mapped_io |-> NewMappedIO]

\* a bus that decodes all 16 address bits
MaskAddrKeepsBit15(addr) == addr

\* let addr = addr as usize & 0x7FFF
MaskAddr(addr) == addr % 32768

\* Memory::get_byte
get_byte(m, addr) ==
    LET a == MaskAddr(addr) IN
    CASE a < 1024 -> Peek(m.game_ram, a)
      [] a >= 16384 /\ a < 20480 -> Peek(m.dvg_ram, a - 16384)
      [] a >= 20480 /\ a < 22528 -> Peek(m.dvg_rom, a - 20480)
      [] a >= 26624 -> Peek(m.game_rom, a - 26624)
      [] a = 8193 -> m.mapped_io.clck3khz
      [] a = 8194 -> m.mapped_io.halt
      [] a = 9219 -> m.mapped_io.sw1start
      [] a = 8196 -> m.mapped_io.swfire
      [] a = 9221 -> m.mapped_io.swthrust
      [] a = 9222 -> m.mapped_io.swrotrght
      [] a = 9223 -> m.mapped_io.swrotleft
      [] a = 8195 -> m.mapped_io.swhyper
      [] OTHER -> 0

\* a bus whose halt flag can be written at 0x2002
SetByteWritesHalt(m, addr, byte) ==
    LET a == MaskAddr(addr) IN
    CASE a < 1024 -> [m EXCEPT !.game_ram = Poke(@, a, byte)]
      [] a >= 16384 /\ a < 20480 -> [m EXCEPT !.dvg_ram = Poke(@, a - 16384, byte)]
      [] a = 8194 -> [m EXCEPT !.mapped_io.halt = byte]
      [] OTHER -> m

\* Memory::set_byte
set_byte(m, addr, byte) ==
    LET a == MaskAddr(addr) IN
    CASE a < 1024 -> [m EXCEPT !.game_ram = Poke(@, a, byte)]
      [] a >= 16384 /\ a < 20480 -> [m EXCEPT !.dvg_ram = Poke(@, a - 16384, byte)]
      [] a = 8193 -> [m EXCEPT !.mapped_io.clck3khz = byte]
      [] a = 12288 -> [m EXCEPT !.mapped_io.godvg = byte]
      [] a = 13824 -> [m EXCEPT !.mapped_io.sndexp = byte]
      [] a = 14848 -> [m EXCEPT !.mapped_io.sndthump = byte]
      [] a = 15360 -> [m EXCEPT !.mapped_io.sndsaucr = byte]
      [] a = 15361 -> [m EXCEPT !.mapped_io.sndsfire = byte]
      [] a = 15362 -> [m EXCEPT !.mapped_io.sndselsau = byte]
      [] a = 15363 -> [m EXCEPT !.mapped_io.sndthrust = byte]
      [] a = 15364 -> [m EXCEPT !.mapped_io.sndfire = byte]
      [] a = 15365 -> [m EXCEPT !.mapped_io.sndbonus = byte]
      [] OTHER -> m

(***************************************************************************)
(* Integer overflow.  rustc compiles `+`, `-`, `*` and shifts to a panic   *)
(* on overflow when overflow checks are on (the dev profile) and to        *)
(* wrapping arithmetic when they are off (the release profile).  `checks`  *)
(* is that choice; a result carries the wrapped value and the panic        *)
(* message, "" when there is none.                                         *)
(***************************************************************************)
NoPanic == ""

\* the first panic raised by a sequence of evaluations
FirstPanic(ps) ==
    IF \E i \in 1..Len(ps) : ps[i] # NoPanic
    THEN ps[CHOOSE i \in 1..Len(ps) : ps[i] # NoPanic /\ \A j \in 1..(i - 1) : ps[j] = NoPanic]
    ELSE NoPanic

\* an i16 result n of `what`
CheckedI16(n, what, checks) ==
    [v |-> WrapI16(n),
     panic |-> IF checks /\ ~InI16(n) THEN "attempt to " \o what \o " with overflow" ELSE NoPanic]

\* a u16 result n of `what`
CheckedU16(n, what, checks) ==
    [v |-> n % 65536,
     panic |-> IF checks /\ (n < 0 \/ n > 65535) THEN "attempt to " \o what \o " with overflow" ELSE NoPanic]

(***************************************************************************)
(* display.rs : Dvg.                                                       *)
(***************************************************************************)
\* Dvg::new
NewDvg == [pc |-> 0, x |-> 0, y |-> 0, sf |-> 0, stack |-> [i \in 0..3 |-> 0], sp |-> 0]

\* a reset that leaves the beam where the last frame left it
DvgResetKeepsCursor(d) ==
    [pc |-> 1, x |-> d.x, y |-> d.y, sf |-> 0, stack |-> [i \in 0..3 |-> 0], sp |-> 0]

\* Dvg::reset
DvgReset(d) == [pc |-> 1, x |-> 0, y |-> 0, sf |-> 0, stack |-> [i \in 0..3 |-> 0], sp |-> 0]

\* Dvg::load_from_pc
DvgLoadFromPc(d, m, checks) ==
    LET Loaded(twice, addr, next) ==
            [dvg |-> [d EXCEPT !.pc = next.v],
             word |-> get_byte(m, addr.v) + 256 * get_byte(m, addr.v + 1),
             panic |-> FirstPanic(<<twice.panic, addr.panic, next.panic>>)]
        Doubled(twice) ==
            Loaded(twice, CheckedU16(twice.v + 16384, "add", checks),
                   CheckedU16(d.pc + 1, "add", checks))
    IN  Doubled(CheckedU16(d.pc * 2, "multiply", checks))

\* Dvg::instruction_from_word
DvgInstructionFromWord(word) ==
    LET op_code == word \div 4096 IN
    CASE op_code = 10 -> "LABS"
      [] op_code = 11 -> "HALT"
      [] op_code = 12 -> "JSRL"
      [] op_code = 13 -> "RTSL"
      [] op_code = 14 -> "JMPL"
      [] op_code = 15 -> "SVEC"
      [] OTHER -> "VCTR"

\* Dvg::screen_y
DvgScreenY(y, h, checks) ==
    LET dy == CheckedI16(y - 96, "subtract", checks)
    IN  [v |-> WrapI16(h - TruncDiv(dy.v * h, 832)), panic |-> dy.panic]

\* Dvg::screen_x
DvgScreenX(x, w) == WrapI16(TruncDiv(x * w, 1024))

\* the colour Dvg::line draws intensity z in
DvgColor(z) ==
    CASE z = 7 -> [r |-> 255, g |-> 0, b |-> 0, a |-> 255]
      [] z = 8 -> [r |-> 0, g |-> 255, b |-> 0, a |-> 255]
      [] z = 9 -> [r |-> 0, g |-> 0, b |-> 255, a |-> 255]
      [] z = 10 -> [r |-> 255, g |-> 255, b |-> 0, a |-> 255]
      [] z = 11 -> [r |-> 255, g |-> 0, b |-> 255, a |-> 255]
      [] z = 12 -> [r |-> 0, g |-> 255, b |-> 255, a |-> 255]
      [] OTHER -> [r |-> 255, g |-> 255, b |-> 255, a |-> (z * 17) % 256]

\* a line that moves the beam only when it draws
DvgLineBlankStays(d, cv, size, x, y, z, checks) ==
    IF z = 0
    THEN [dvg |-> d, canvas |-> cv, panic |-> NoPanic]
    ELSE [dvg |-> [d EXCEPT !.x = x, !.y = y],
          canvas |-> Append(cv, [kind |-> "line", x1 |-> DvgScreenX(x, size[1]),
                                 y1 |-> DvgScreenY(y, size[2], checks).v,
                                 x2 |-> DvgScreenX(d.x, size[1]),
                                 y2 |-> DvgScreenY(d.y, size[2], checks).v,
                                 color |-> DvgColor(z)]),
          panic |-> NoPanic]

\* Dvg::line : the primitive drawn on the canvas, then the beam moves to (x, y)
DvgLine(d, cv, size, x, y, z, checks) ==
    LET point == x = d.x /\ y = d.y
        Draw(prim, why) ==
            [dvg |-> IF why = NoPanic THEN [d EXCEPT !.x = x, !.y = y] ELSE d,
             canvas |-> IF z # 0 /\ why = NoPanic THEN Append(cv, prim) ELSE cv,
             panic |-> why]
        At(sx, sy, ox, oy) ==
            IF point
            THEN Draw([kind |-> "filled_circle", x |-> sx, y |-> sy.v, rad |-> 2,
                       color |-> DvgColor(z)],
                      IF z = 0 THEN NoPanic ELSE sy.panic)
            ELSE Draw([kind |-> "line", x1 |-> sx, y1 |-> sy.v, x2 |-> ox, y2 |-> oy.v,
                       color |-> DvgColor(z)],
                      IF z = 0 THEN NoPanic ELSE FirstPanic(<<sy.panic, oy.panic>>))
    IN  At(DvgScreenX(x, size[1]), DvgScreenY(y, size[2], checks),
           DvgScreenX(d.x, size[1]), DvgScreenY(d.y, size[2], checks))

\* Dvg::shift
DvgShift(a, s, checks) ==
    IF s >= 0
    THEN [v |-> a \div Pow2(s % 16),
          panic |-> IF checks /\ s >= 16 THEN "attempt to shift right with overflow" ELSE NoPanic]
    ELSE [v |-> (a * Pow2((-s) % 16)) % 65536,
          panic |-> IF checks /\ (-s) >= 16 THEN "attempt to shift left with overflow" ELSE NoPanic]

\* self.x + Dvg::shift(delta, shift_bits) as i16 * if sign { -1 } else { 1 }
DvgEndpoint(from, delta, sign, shift_bits, checks) ==
    LET Sum(sh, prod, sum) ==
            [v |-> sum.v, panic |-> FirstPanic(<<sh.panic, prod.panic, sum.panic>>)]
        Prod(sh, prod) == Sum(sh, prod, CheckedI16(from + prod.v, "add", checks))
        Shifted(sh) ==
            Prod(sh, CheckedI16(AsI16(sh.v) * (IF sign THEN -1 ELSE 1), "multiply", checks))
    IN  Shifted(DvgShift(delta, shift_bits, checks))

\* the body shared by the VCTR and SVEC arms of Dvg::execute_instruction,
\* f the fields the arm has taken from the instruction
DvgVector(d, cv, size, f, checks) ==
    LET To(x, y, early) ==
            IF early # NoPanic
            THEN [dvg |-> d, canvas |-> cv, panic |-> early]
            ELSE DvgLine(d, cv, size, x.v, y.v, f.z, checks)
        Ends(x, y) == To(x, y, FirstPanic(<<x.panic, y.panic>>))
    IN  Ends(DvgEndpoint(d.x, f.delta_x, f.xs, f.shift_bits, checks),
             DvgEndpoint(d.y, f.delta_y, f.ys, f.shift_bits, checks))

\* a JSRL that accepts a fifth call
DvgJsrlFiveDeep(d, op_word1) ==
    IF d.sp > 4
    THEN [dvg |-> d, panic |-> "DVG stack overflow"]
    ELSE [dvg |-> [d EXCEPT !.stack[d.sp] = d.pc, !.sp = d.sp + 1, !.pc = op_word1 % 4096],
          panic |-> NoPanic]

\* a JSRL that jumps before it finds the stack full
DvgJsrlLateFault(d, op_word1) ==
    IF d.sp > 3
    THEN [dvg |-> [d EXCEPT !.pc = op_word1 % 4096], panic |-> "DVG stack overflow"]
    ELSE [dvg |-> [d EXCEPT !.stack[d.sp] = d.pc, !.sp = d.sp + 1, !.pc = op_word1 % 4096],
          panic |-> NoPanic]

\* a JSRL that pushes the address it jumps to
DvgJsrlPushesTarget(d, op_word1) ==
    IF d.sp > 3
    THEN [dvg |-> d, panic |-> "DVG stack overflow"]
    ELSE [dvg |-> [d EXCEPT !.stack[d.sp] = op_word1 % 4096, !.sp = d.sp + 1,
                            !.pc = op_word1 % 4096],
          panic |-> NoPanic]

\* Dvg::execute_instruction, the JSRL arm
DvgJsrl(d, op_word1) ==
    IF d.sp > 3
    THEN [dvg |-> d, panic |-> "DVG stack overflow"]
    ELSE [dvg |-> [d EXCEPT !.stack[d.sp] = d.pc, !.sp = d.sp + 1, !.pc = op_word1 % 4096],
          panic |-> NoPanic]

\* Dvg::execute_instruction, the RTSL arm
DvgRtsl(d) ==
    IF d.sp = 0
    THEN [dvg |-> d, panic |-> "DVG stack underflow"]
    ELSE [dvg |-> [d EXCEPT !.sp = d.sp - 1, !.pc = d.stack[d.sp - 1]],
          panic |-> NoPanic]

\* Dvg::execute_instruction, the JMPL arm
DvgJmpl(d, op_word1) == [d EXCEPT !.pc = op_word1 % 4096]

\* Dvg::execute_instruction, the HALT arm
DvgHalt(m) == [m EXCEPT !.mapped_io.halt = 0]

\* the LABS arm, were a set sign bit to negate the 10-bit magnitude
DvgLabsSignMagnitude(d, op_word1, op_word2) ==
    LET ys == (op_word1 \div 1024) % 2 = 1
        y == op_word1 % 1024
        xs == (op_word2 \div 1024) % 2 = 1
        x == op_word2 % 1024
        sf == op_word2 \div 4096
    IN  [d EXCEPT
           !.sf = IF (sf \div 8) % 2 = 0 THEN -sf ELSE 16 - sf,
           !.y = IF ys THEN 0 - y ELSE y,
           !.x = IF xs THEN 0 - x ELSE x]

\* Dvg::execute_instruction, the LABS arm
DvgLabs(d, op_word1, op_word2) ==
    LET ys == (op_word1 \div 1024) % 2 = 1
        y == op_word1 % 1024
        xs == (op_word2 \div 1024) % 2 = 1
        x == op_word2 % 1024
        sf == op_word2 \div 4096
    IN  [d EXCEPT
           !.sf = IF (sf \div 8) % 2 = 0 THEN -sf ELSE 16 - sf,
           !.y = IF ys THEN 0 - (BitXor(y, 1023) + 1) ELSE y,
           !.x = IF xs THEN 0 - (BitXor(x, 1023) + 1) ELSE x]

\* Dvg::execute_instruction, the VCTR arm: the fields of the two words
DvgVctrFields(d, op_word1, op_word2) ==
    [ys |-> (op_word1 \div 1024) % 2 = 1,
     delta_y |-> op_word1 % 1024,
     z |-> op_word2 \div 4096,
     xs |-> (op_word2 \div 1024) % 2 = 1,
     delta_x |-> op_word2 % 1024,
     shift_bits |-> 9 - (op_word1 \div 4096) + d.sf]

\* Dvg::execute_instruction, the VCTR arm
DvgVctr(d, cv, size, op_word1, op_word2, checks) ==
    DvgVector(d, cv, size, DvgVctrFields(d, op_word1, op_word2), checks)

\* Dvg::execute_instruction, the SVEC arm: the fields of the word
DvgSvecFields(d, op_word1) ==
    [ys |-> (op_word1 \div 1024) % 2 = 1,
     delta_y |-> 256 * ((op_word1 \div 256) % 4),
     xs |-> (op_word1 \div 4) % 2 = 1,
     delta_x |-> 256 * (op_word1 % 4),
     z |-> (op_word1 \div 16) % 16,
     shift_bits |-> (7 - (((op_word1 \div 2048) % 2) + 2 * ((op_word1 \div 8) % 2))) + d.sf]

\* Dvg::execute_instruction, the SVEC arm
DvgSvec(d, cv, size, op_word1, checks) ==
    DvgVector(d, cv, size, DvgSvecFields(d, op_word1), checks)

\* Dvg::execute_instruction : one display-list instruction, fetched and executed
DvgExecuteInstruction(d, m, cv, size, checks) ==
    LET Result(d2, mm, cc, why, op) ==
            [dvg |-> d2, memory |-> mm, canvas |-> cc, panic |-> why, op |-> op]
        Drawn(r, op) == Result(r.dvg, m, r.canvas, r.panic, op)
        Jumped(r, op) == Result(r.dvg, m, cv, r.panic, op)
        Execute(op, d2, op_word1, op_word2) ==
            CASE op = "VCTR" -> Drawn(DvgVctr(d2, cv, size, op_word1, op_word2, checks), op)
              [] op = "LABS" -> Result(DvgLabs(d2, op_word1, op_word2), m, cv, NoPanic, op)
              [] op = "HALT" -> Result(d2, DvgHalt(m), cv, NoPanic, op)
              [] op = "JSRL" -> Jumped(DvgJsrl(d2, op_word1), op)
              [] op = "RTSL" -> Jumped(DvgRtsl(d2), op)
              [] op = "JMPL" -> Result(DvgJmpl(d2, op_word1), m, cv, NoPanic, op)
              [] op = "SVEC" -> Drawn(DvgSvec(d2, cv, size, op_word1, checks), op)
        Second(op, f1, f2) ==
            IF f2.panic # NoPanic
            THEN Result(f2.dvg, m, cv, f2.panic, op)
            ELSE Execute(op, f2.dvg, f1.word, f2.word)
        First(f1, op) ==
            Second(op, f1,
                   IF op \in {"VCTR", "LABS"} /\ f1.panic = NoPanic
                   THEN DvgLoadFromPc(f1.dvg, m, checks)
                   ELSE [dvg |-> f1.dvg, word |-> 0, panic |-> f1.panic])
        Fetched(f1) == First(f1, DvgInstructionFromWord(f1.word))
    IN  Fetched(DvgLoadFromPc(d, m, checks))

(***************************************************************************)
(* cpu.rs : Cpu.  A flag mask is a single bit of the status register p.    *)
(***************************************************************************)
\* Cpu::new
NewCpu == [a |-> 0, x |-> 0, y |-> 0, pc |-> 0, previous_pc |-> 0, s |-> 0, p |-> 0, cycle |-> 0]

\* operand: Option<u16>
None == [some |-> FALSE, val |-> 0]
Some(n) == [some |-> TRUE, val |-> n]

\* Cpu::get_word
CpuGetWord(addr, m, checks) ==
    LET Word(hi) == [v |-> get_byte(m, addr) + 256 * get_byte(m, hi.v), panic |-> hi.panic]
    IN  Word(CheckedU16(addr + 1, "add", checks))

\* Cpu::page_cross_penalty, were it to charge nothing for a crossing
CpuPageCrossPenaltyNever(addr, offset, checks) ==
    LET sum == CheckedU16(addr + offset, "add", checks)
    IN  [v |-> 0, panic |-> sum.panic]

\* Cpu::page_cross_penalty
CpuPageCrossPenalty(addr, offset, checks) ==
    LET sum == CheckedU16(addr + offset, "add", checks)
    IN  [v |-> IF addr \div 256 = sum.v \div 256 THEN 0 ELSE 1, panic |-> sum.panic]

\* Cpu::reset
CpuReset(c, m, checks) ==
    LET vec == CpuGetWord(65532, m, checks)
    IN  [c EXCEPT !.a = 0, !.x = 0, !.y = 0, !.p = 4, !.s = 253, !.pc = vec.v, !.cycle = 6]

\* Cpu::load_byte_from_pc
CpuLoadByteFromPc(c, m, checks) ==
    LET next == CheckedU16(c.pc + 1, "add", checks)
    IN  [cpu |-> [c EXCEPT !.pc = next.v], v |-> get_byte(m, c.pc), panic |-> next.panic]

\* Cpu::load_word_from_pc
CpuLoadWordFromPc(c, m, checks) ==
    LET Word(lo, hi) ==
            [cpu |-> hi.cpu, v |-> lo.v + 256 * hi.v, panic |-> FirstPanic(<<lo.panic, hi.panic>>)]
        Low(lo) == Word(lo, CpuLoadByteFromPc(lo.cpu, m, checks))
    IN  Low(CpuLoadByteFromPc(c, m, checks))

\* Cpu::fetch_operand
CpuFetchOperand(c, m, addressing_mode, checks) ==
    LET Loaded(r) == [cpu |-> r.cpu, operand |-> Some(r.v), panic |-> r.panic]
    IN  CASE addressing_mode \in {"Immediate", "ZeroPage", "ZeroPageOffsetX", "ZeroPageOffsetY",
                                  "OffsetXIndirect", "IndirectOffsetY"} ->
                Loaded(CpuLoadByteFromPc(c, m, checks))
          [] addressing_mode \in {"Absolute", "AbsoluteOffsetX", "AbsoluteOffsetY",
                                  "IndirectLocation", "AbsoluteLocation"} ->
                Loaded(CpuLoadWordFromPc(c, m, checks))
          [] OTHER -> [cpu |-> c, operand |-> None, panic |-> NoPanic]

\* a match without the arms for 0x8A, 0xCA and 0xEA
CpuDecodeSingleNoColumnA(op_code) ==
    CASE op_code = 0 -> "BRK"
      [] op_code = 64 -> "RTI"
      [] op_code = 8 -> "PHP"
      [] op_code = 40 -> "PLP"
      [] OTHER -> "INVALID"

\* Cpu::fetch_instruction, the opcodes matched one by one
CpuDecodeSingle(op_code) ==
    CASE op_code = 0 -> "BRK"
      [] op_code = 32 -> "JSR"
      [] op_code = 64 -> "RTI"
      [] op_code = 96 -> "RTS"
      [] op_code = 8 -> "PHP"
      [] op_code = 40 -> "PLP"
      [] op_code = 72 -> "PHA"
      [] op_code = 104 -> "PLA"
      [] op_code = 136 -> "DEY"
      [] op_code = 168 -> "TAY"
      [] op_code = 200 -> "INY"
      [] op_code = 232 -> "INX"
      [] op_code = 24 -> "CLC"
      [] op_code = 56 -> "SEC"
      [] op_code = 88 -> "CLI"
      [] op_code = 120 -> "SEI"
      [] op_code = 152 -> "TYA"
      [] op_code = 184 -> "CLV"
      [] op_code = 216 -> "CLD"
      [] op_code = 248 -> "SED"
      [] op_code = 138 -> "TXA"
      [] op_code = 154 -> "TXS"
      [] op_code = 170 -> "TAX"
      [] op_code = 186 -> "TSX"
      [] op_code = 202 -> "DEX"
      [] op_code = 234 -> "NOP"
      [] OTHER -> "INVALID"

\* Cpu::fetch_instruction, the arm op & 0b11111 == 0b10000 (relative branches)
CpuDecodeBranch(op_code) ==
    LET i == op_code \div 32
    IN  [instruction |-> <<"BPL", "BMI", "BVC", "BVS", "BCC", "BCS", "BNE", "BEQ">>[i + 1],
         addressing_mode |-> "Immediate", bad |-> FALSE]

\* the arm op & 0b11 == 0b01 without its test for STA in immediate mode
CpuDecodeGroupAKeepsAll(op_code) ==
    [instruction |-> <<"ORA", "AND", "EOR", "ADC", "STA", "LDA", "CMP", "SBC">>[(op_code \div 32) + 1],
     addressing_mode |->
        <<"OffsetXIndirect", "ZeroPage", "Immediate", "Absolute", "IndirectOffsetY",
          "ZeroPageOffsetX", "AbsoluteOffsetY", "AbsoluteOffsetX">>[((op_code \div 4) % 8) + 1],
     bad |-> FALSE]

\* Cpu::fetch_instruction, the arm op & 0b11 == 0b01
CpuDecodeGroupA(op_code) ==
    LET addressing_mode ==
            <<"OffsetXIndirect", "ZeroPage", "Immediate", "Absolute", "IndirectOffsetY",
              "ZeroPageOffsetX", "AbsoluteOffsetY", "AbsoluteOffsetX">>[((op_code \div 4) % 8) + 1]
        instruction ==
            <<"ORA", "AND", "EOR", "ADC", "STA", "LDA", "CMP", "SBC">>[(op_code \div 32) + 1]
    IN  [instruction |-> instruction, addressing_mode |-> addressing_mode,
         bad |-> instruction = "STA" /\ addressing_mode = "Immediate"]

\* Cpu::fetch_instruction, the arm op & 0b11 == 0b10
CpuDecodeGroupB(op_code) ==
    LET instruction ==
            <<"ASL", "ROL", "LSR", "ROR", "STX", "LDX", "DEC", "INC">>[(op_code \div 32) + 1]
        mode_bits == (op_code \div 4) % 8
        addressing_mode ==
            CASE mode_bits = 0 -> "Immediate"
              [] mode_bits = 1 -> "ZeroPage"
              [] mode_bits = 2 -> "Accumulator"
              [] mode_bits = 3 -> "Absolute"
              [] mode_bits = 5 ->
                    IF instruction \in {"LDX", "STX"} THEN "ZeroPageOffsetY" ELSE "ZeroPageOffsetX"
              [] mode_bits = 7 ->
                    IF instruction = "LDX" THEN "AbsoluteOffsetY" ELSE "AbsoluteOffsetX"
              [] OTHER -> "NA"
        bad_combination ==
            CASE addressing_mode = "NA" -> TRUE
              [] addressing_mode = "Immediate" -> instruction # "LDX"
              [] addressing_mode = "Accumulator" -> instruction \in {"STX", "LDX", "DEC", "INC"}
              [] addressing_mode = "AbsoluteOffsetX" -> instruction = "STX"
              [] OTHER -> FALSE
    IN  [instruction |-> instruction, addressing_mode |-> addressing_mode, bad |-> bad_combination]

\* Cpu::fetch_instruction, the arm op & 0b11 == 0b00
CpuDecodeGroupC(op_code) ==
    LET mode_bits == (op_code \div 4) % 8
        top == op_code \div 32
        addressing_mode ==
            CASE mode_bits = 0 -> "Immediate"
              [] mode_bits = 1 -> "ZeroPage"
              [] mode_bits = 3 ->
                    IF top = 3 THEN "IndirectLocation"
                    ELSE IF top = 2 THEN "AbsoluteLocation"
                    ELSE "Absolute"
              [] mode_bits = 5 -> "ZeroPageOffsetX"
              [] mode_bits = 7 -> "AbsoluteOffsetX"
              [] OTHER -> "NA"
        instruction ==
            CASE top = 1 -> "BIT"
              [] top \in {2, 3} -> "JMP"
              [] top = 4 -> "STY"
              [] top = 5 -> "LDY"
              [] top = 6 -> "CPY"
              [] top = 7 -> "CPX"
              [] OTHER -> "INVALID"
        bad_combination ==
            CASE addressing_mode = "NA" -> TRUE
              [] addressing_mode = "Immediate" -> instruction \notin {"LDY", "CPY", "CPX"}
              [] addressing_mode = "ZeroPage" -> instruction = "JMP"
              [] addressing_mode = "ZeroPageOffsetX" -> instruction \notin {"STY", "LDY"}
              [] addressing_mode = "AbsoluteOffsetX" -> instruction # "LDY"
              [] OTHER -> FALSE
    IN  [instruction |-> instruction, addressing_mode |-> addressing_mode,
         bad |-> instruction = "INVALID" \/ bad_combination]

\* Cpu::fetch_instruction, the match on op_code: mnemonic, addressing mode, bad_opcode()
CpuDecode(op_code) ==
    LET Matched(single) ==
            CASE single # "INVALID" ->
                    [instruction |-> single,
                     addressing_mode |-> IF op_code = 32 THEN "AbsoluteLocation" ELSE "NA",
                     bad |-> FALSE]
              [] single = "INVALID" /\ op_code % 32 = 16 -> CpuDecodeBranch(op_code)
              [] single = "INVALID" /\ op_code % 32 # 16 /\ op_code % 4 = 1 ->
                    CpuDecodeGroupA(op_code)
              [] single = "INVALID" /\ op_code % 32 # 16 /\ op_code % 4 = 2 ->
                    CpuDecodeGroupB(op_code)
              [] single = "INVALID" /\ op_code % 32 # 16 /\ op_code % 4 = 0 ->
                    CpuDecodeGroupC(op_code)
              [] OTHER -> [instruction |-> "INVALID", addressing_mode |-> "NA", bad |-> TRUE]
    IN  Matched(CpuDecodeSingle(op_code))

\* Cpu::fetch_instruction
CpuFetchInstruction(c, m, checks) ==
    LET Decoded(dec, operand) ==
            [address |-> c.pc, instruction |-> dec.instruction,
             addressing_mode |-> dec.addressing_mode, operand |-> operand]
        WithOperand(dec, r) ==
            [cpu |-> r.cpu, decoded |-> Decoded(dec, r.operand), panic |-> r.panic]
        Matched(f, dec) ==
            IF f.panic # NoPanic
            THEN [cpu |-> f.cpu, decoded |-> Decoded(dec, None), panic |-> f.panic]
            ELSE IF dec.bad
            THEN [cpu |-> f.cpu, decoded |-> Decoded(dec, None), panic |-> "Invalid op code"]
            ELSE WithOperand(dec, CpuFetchOperand(f.cpu, m, dec.addressing_mode, checks))
        Loaded(f) == Matched(f, CpuDecode(f.v))
    IN  Loaded(CpuLoadByteFromPc(c, m, checks))

\* Cpu::flag_set
FlagSet(c, mask) == (c.p \div mask) % 2 = 1

\* Cpu::update_flag
UpdateFlag(c, set, mask) ==
    [c EXCEPT !.p = IF set
                    THEN (IF (@ \div mask) % 2 = 1 THEN @ ELSE @ + mask)
                    ELSE (IF (@ \div mask) % 2 = 1 THEN @ - mask ELSE @)]

CarrySet(c) == FlagSet(c, 1)
ZeroSet(c) == FlagSet(c, 2)
DecimalSet(c) == FlagSet(c, 8)
OverflowSet(c) == FlagSet(c, 64)
NegativeSet(c) == FlagSet(c, 128)

UpdateCarry(c, set) == UpdateFlag(c, set, 1)
UpdateZero(c, set) == UpdateFlag(c, set, 2)
UpdateIrqDisable(c, set) == UpdateFlag(c, set, 4)
UpdateDecimal(c, set) == UpdateFlag(c, set, 8)
UpdateBrkCommand(c, set) == UpdateFlag(c, set, 16)
UpdateOverflow(c, set) == UpdateFlag(c, set, 64)
UpdateNegativeFromByte(c, byte) == UpdateFlag(c, (byte \div 128) % 2 = 1, 128)

\* update_zero(result == 0); update_negative_from_byte(result)
UpdateZN(c, result) == UpdateNegativeFromByte(UpdateZero(c, result = 0), result % 256)

\* let op = if let Some(val) = decoded_instruction.operand {val} else {0}
OperandOr0(decoded) == IF decoded.operand.some THEN decoded.operand.val ELSE 0

\* operand resolution, were the zero-page indexed modes not to wrap
CpuEffectiveAddressNoWrap(c, decoded, m, checks) ==
    LET op == OperandOr0(decoded)
        mode == decoded.addressing_mode
        Sum(ptr, sum) == [v |-> sum.v, panic |-> FirstPanic(<<ptr.panic, sum.panic>>)]
        Indexed(ptr) == Sum(ptr, CheckedU16(ptr.v + c.y, "add", checks))
    IN  CASE mode \in {"ZeroPage", "Absolute"} -> [v |-> op, panic |-> NoPanic]
          [] mode = "ZeroPageOffsetX" -> [v |-> op + c.x, panic |-> NoPanic]
          [] mode = "ZeroPageOffsetY" -> [v |-> op + c.y, panic |-> NoPanic]
          [] mode = "AbsoluteOffsetX" -> CheckedU16(op + c.x, "add", checks)
          [] mode = "AbsoluteOffsetY" -> CheckedU16(op + c.y, "add", checks)
          [] mode = "OffsetXIndirect" -> CpuGetWord((op + c.x) % 256, m, checks)
          [] mode = "IndirectOffsetY" -> Indexed(CpuGetWord(op, m, checks))

\* the address an indexed or indirect addressing mode reads or writes
CpuEffectiveAddress(c, decoded, m, checks) ==
    LET op == OperandOr0(decoded)
        mode == decoded.addressing_mode
        Sum(ptr, sum) == [v |-> sum.v, panic |-> FirstPanic(<<ptr.panic, sum.panic>>)]
        Indexed(ptr) == Sum(ptr, CheckedU16(ptr.v + c.y, "add", checks))
    IN  CASE mode \in {"ZeroPage", "Absolute"} -> [v |-> op, panic |-> NoPanic]
          [] mode = "ZeroPageOffsetX" -> [v |-> (op + c.x) % 256, panic |-> NoPanic]
          [] mode = "ZeroPageOffsetY" -> [v |-> (op + c.y) % 256, panic |-> NoPanic]
          [] mode = "AbsoluteOffsetX" -> CheckedU16(op + c.x, "add", checks)
          [] mode = "AbsoluteOffsetY" -> CheckedU16(op + c.y, "add", checks)
          [] mode = "OffsetXIndirect" -> CpuGetWord((op + c.x) % 256, m, checks)
          [] mode = "IndirectOffsetY" -> Indexed(CpuGetWord(op, m, checks))

\* Cpu::realise_operand
CpuRealiseOperand(c, decoded, m, checks) ==
    LET op == OperandOr0(decoded)
        mode == decoded.addressing_mode
        At(ea) == [v |-> get_byte(m, ea.v), panic |-> ea.panic]
    IN  CASE mode = "Immediate" -> [v |-> op, panic |-> NoPanic]
          [] mode \in {"ZeroPage", "ZeroPageOffsetX", "ZeroPageOffsetY", "Absolute",
                       "AbsoluteOffsetX", "AbsoluteOffsetY", "OffsetXIndirect",
                       "IndirectOffsetY"} ->
                At(CpuEffectiveAddress(c, decoded, m, checks))
          [] mode = "Accumulator" -> [v |-> c.a, panic |-> NoPanic]
          [] mode = "IndirectLocation" -> CpuGetWord(op, m, checks)
          [] mode = "AbsoluteLocation" -> [v |-> op, panic |-> NoPanic]
          [] OTHER -> [v |-> 0, panic |-> NoPanic]

\* Cpu::store_to_operand, were it to write the accumulator only
CpuStoreToOperandRegisterOnly(c, store, decoded, m, checks) ==
    IF decoded.addressing_mode = "Accumulator"
    THEN [cpu |-> [c EXCEPT !.a = store], memory |-> m, panic |-> NoPanic]
    ELSE [cpu |-> c, memory |-> m, panic |-> NoPanic]

\* Cpu::store_to_operand
CpuStoreToOperand(c, store, decoded, m, checks) ==
    LET mode == decoded.addressing_mode
        At(ea) ==
            [cpu |-> c,
             memory |-> IF ea.panic = NoPanic THEN set_byte(m, ea.v, store) ELSE m,
             panic |-> ea.panic]
    IN  CASE mode \in {"ZeroPage", "ZeroPageOffsetX", "ZeroPageOffsetY", "Absolute",
                       "AbsoluteOffsetX", "AbsoluteOffsetY", "OffsetXIndirect",
                       "IndirectOffsetY"} ->
                At(CpuEffectiveAddress(c, decoded, m, checks))
          [] mode = "Accumulator" -> [cpu |-> [c EXCEPT !.a = store], memory |-> m, panic |-> NoPanic]
          [] OTHER -> [cpu |-> c, memory |-> m, panic |-> NoPanic]

\* Cpu::branch
CpuBranch(c, op, checks) ==
    LET Go(to) == [cpu |-> [c EXCEPT !.pc = to.v], panic |-> to.panic]
    IN  IF (op \div 128) % 2 = 1
        THEN Go(CheckedU16(c.pc - (256 - op), "subtract", checks))
        ELSE Go(CheckedU16(c.pc + op, "add", checks))

\* a push that does not wrap from 0x00 to 0xFF
CpuPushByteSticksAtBottom(c, store, m) ==
    [cpu |-> [c EXCEPT !.s = IF c.s = 0 THEN 0 ELSE c.s - 1],
     memory |-> set_byte(m, 256 + c.s, store)]

\* Cpu::push_byte
CpuPushByte(c, store, m) ==
    [cpu |-> [c EXCEPT !.s = IF c.s = 0 THEN 255 ELSE c.s - 1],
     memory |-> set_byte(m, 256 + c.s, store)]

\* a pop that does not wrap from 0xFF to 0x00
CpuPopByteSticksAtTop(c, m) ==
    [cpu |-> [c EXCEPT !.s = IF c.s = 255 THEN 255 ELSE c.s + 1],
     v |-> get_byte(m, 256 + (IF c.s = 255 THEN 255 ELSE c.s + 1))]

\* Cpu::pop_byte
CpuPopByte(c, m) ==
    LET s == IF c.s = 255 THEN 0 ELSE c.s + 1
    IN  [cpu |-> [c EXCEPT !.s = s], v |-> get_byte(m, 256 + s)]

\* a push of the low byte before the high byte
CpuPushWordLowFirst(c, store, m) ==
    CpuPushByte(CpuPushByte(c, store % 256, m).cpu, store \div 256,
                CpuPushByte(c, store % 256, m).memory)

\* Cpu::push_word
CpuPushWord(c, store, m) ==
    LET Low(hi) == CpuPushByte(hi.cpu, store % 256, hi.memory)
    IN  Low(CpuPushByte(c, store \div 256, m))

\* a pop of a word that takes the high byte first
CpuPopWordHighFirst(c, m) ==
    LET Word(hi, lo) == [cpu |-> lo.cpu, v |-> lo.v + 256 * hi.v]
        High(hi) == Word(hi, CpuPopByte(hi.cpu, m))
    IN  High(CpuPopByte(c, m))

\* Cpu::pop_word
CpuPopWord(c, m) ==
    LET Word(lo, hi) == [cpu |-> hi.cpu, v |-> lo.v + 256 * hi.v]
        Low(lo) == Word(lo, CpuPopByte(lo.cpu, m))
    IN  Low(CpuPopByte(c, m))

\* a decrement that leaves the flags as they were
CpuDecrementByteKeepsFlags(c, byte) ==
    LET result == IF byte = 0 THEN 255 ELSE byte - 1
    IN  [cpu |-> c, v |-> result]

\* Cpu::decrement_byte
CpuDecrementByte(c, byte) ==
    LET result == IF byte = 0 THEN 255 ELSE byte - 1
    IN  [cpu |-> UpdateZN(c, result), v |-> result]

\* Cpu::increment_byte
CpuIncrementByte(c, byte) ==
    LET result == IF byte = 255 THEN 0 ELSE byte + 1
    IN  [cpu |-> UpdateZN(c, result), v |-> result]

\* Cpu::compare
CpuCompare(c, compare_to, byte) ==
    UpdateNegativeFromByte(
        UpdateZero(UpdateCarry(c, compare_to >= byte), compare_to = byte),
        (compare_to + 256 - byte) % 256)

\* an interrupt entry that starts the cycle count again
CpuInitiateNmiRestartsCount(c, m, checks) ==
    LET Vectored(b, vec) ==
            [cpu |-> [b.cpu EXCEPT !.pc = vec.v, !.cycle = 7], memory |-> b.memory,
             panic |-> vec.panic]
        Pushed(b) == Vectored(b, CpuGetWord(65530, b.memory, checks))
        PushedPc(w) == Pushed(CpuPushByte(w.cpu, c.p, w.memory))
    IN  PushedPc(CpuPushWord(c, c.pc, m))

\* Cpu::initiate_nmi
CpuInitiateNmi(c, m, checks) ==
    LET Vectored(b, vec) ==
            [cpu |-> [b.cpu EXCEPT !.pc = vec.v, !.cycle = @ + 7], memory |-> b.memory,
             panic |-> vec.panic]
        Pushed(b) == Vectored(b, CpuGetWord(65530, b.memory, checks))
        PushedPc(w) == Pushed(CpuPushByte(w.cpu, c.p, w.memory))
    IN  PushedPc(CpuPushWord(c, c.pc, m))

\* an instruction arm that ends without a fault
Done(c, m) == [cpu |-> c, memory |-> m, panic |-> NoPanic]

\* Cpu::execute_instruction, the eight conditional-branch arms
CpuExecBranch(c, taken, op, m, checks) ==
    LET Went(b) == [cpu |-> b.cpu, memory |-> m, panic |-> b.panic]
    IN  IF taken THEN Went(CpuBranch(c, op, checks)) ELSE Done(c, m)

\* the ADC arm, were it to set overflow as the 6502 does: when both operands
\* have the sign the sum does not have
CpuAdcSignedOverflow(c, op) ==
    LET cin == IF CarrySet(c) THEN 1 ELSE 0
        rhs == (c.a % 16) + (op % 16) + cin
        carry == IF rhs > 9 THEN 1 ELSE 0
        lhs == (c.a \div 16) + ((op \div 16) % 16) + carry
        result == c.a + op + cin
        sum == IF DecimalSet(c) THEN BitOr((lhs % 10) * 16, rhs % 10) ELSE result % 256
        c1 == IF DecimalSet(c) THEN UpdateCarry(c, lhs > 9) ELSE UpdateCarry(c, result > 255)
        c2 == UpdateZero(UpdateNegativeFromByte(c1, sum % 256), sum = 0)
        overflow == ((c.a < 128) = ((op % 256) < 128)) /\ ((c.a < 128) # (sum < 128))
    IN  [UpdateOverflow(c2, overflow) EXCEPT !.a = sum % 256]

\* the ADC arm, were the low digit's carry not to reach the high digit
CpuAdcNoDigitCarry(c, op) ==
    LET cin == IF CarrySet(c) THEN 1 ELSE 0
        rhs == (c.a % 16) + (op % 16) + cin
        lhs == (c.a \div 16) + ((op \div 16) % 16)
        result == c.a + op + cin
        sum == IF DecimalSet(c) THEN BitOr((lhs % 10) * 16, rhs % 10) ELSE result % 256
        c1 == IF DecimalSet(c) THEN UpdateCarry(c, lhs > 9) ELSE UpdateCarry(c, result > 255)
        c2 == UpdateZero(UpdateNegativeFromByte(c1, sum % 256), sum = 0)
        overflow == (c.a < 128 /\ sum > 127) \/ (c.a > 127 /\ sum < 128)
    IN  [UpdateOverflow(c2, overflow) EXCEPT !.a = sum % 256]

\* Cpu::execute_instruction, the ADC arm
CpuAdc(c, op) ==
    LET cin == IF CarrySet(c) THEN 1 ELSE 0
        rhs == (c.a % 16) + (op % 16) + cin
        carry == IF rhs > 9 THEN 1 ELSE 0
        lhs == (c.a \div 16) + ((op \div 16) % 16) + carry
        result == c.a + op + cin
        sum == IF DecimalSet(c) THEN BitOr((lhs % 10) * 16, rhs % 10) ELSE result % 256
        c1 == IF DecimalSet(c) THEN UpdateCarry(c, lhs > 9) ELSE UpdateCarry(c, result > 255)
        c2 == UpdateZero(UpdateNegativeFromByte(c1, sum % 256), sum = 0)
        overflow == (c.a < 128 /\ sum > 127) \/ (c.a > 127 /\ sum < 128)
    IN  [UpdateOverflow(c2, overflow) EXCEPT !.a = sum % 256]

\* the SBC arm, were the low digit's borrow not to reach the high digit
CpuSbcNoDigitBorrow(c, op, checks) ==
    LET lhs_a == c.a \div 16
        lhs_o == ((op % 256) \div 16)
        rhs_a == c.a % 16
        rhs_o == op % 16
        borrow1 == IF CarrySet(c) THEN 0 ELSE 1
        borrow2 == IF rhs_a >= rhs_o + borrow1 THEN 0 ELSE 1
        borrow3 == IF lhs_a >= lhs_o THEN 0 ELSE 1
        rhs == rhs_a + borrow2 * 10 - rhs_o - borrow1
        lhs == lhs_a + borrow3 * 10 - lhs_o
        under == rhs_a + borrow2 * 10 - rhs_o < 0 \/ rhs < 0 \/ lhs < 0
        dec == BitOr((((lhs % 256) % 10) * 16) % 256, (rhs % 256) % 10)
        sub_tot == op + (IF CarrySet(c) THEN 0 ELSE 1)
        bin == (c.a + 256 - sub_tot) % 256
        sub == IF DecimalSet(c) THEN dec ELSE bin
        c1 == IF DecimalSet(c) THEN UpdateCarry(c, borrow3 = 0) ELSE UpdateCarry(c, sub_tot <= c.a)
        c2 == UpdateZero(UpdateNegativeFromByte(c1, sub), sub = 0)
        overflow == (c.a < 128 /\ sub > 127) \/ (c.a > 127 /\ sub < 128)
    IN  [cpu |-> [UpdateOverflow(c2, overflow) EXCEPT !.a = sub],
         panic |-> IF checks /\ DecimalSet(c) /\ under
                   THEN "attempt to subtract with overflow" ELSE NoPanic]

\* Cpu::execute_instruction, the SBC arm; its decimal path computes in u8
CpuSbc(c, op, checks) ==
    LET lhs_a == c.a \div 16
        lhs_o == ((op % 256) \div 16)
        rhs_a == c.a % 16
        rhs_o == op % 16
        borrow1 == IF CarrySet(c) THEN 0 ELSE 1
        borrow2 == IF rhs_a >= rhs_o + borrow1 THEN 0 ELSE 1
        borrow3 == IF lhs_a >= lhs_o + borrow2 THEN 0 ELSE 1
        rhs == rhs_a + borrow2 * 10 - rhs_o - borrow1
        lhs == lhs_a + borrow3 * 10 - lhs_o - borrow2
        under == rhs_a + borrow2 * 10 - rhs_o < 0 \/ rhs < 0
                 \/ lhs_a + borrow3 * 10 - lhs_o < 0 \/ lhs < 0
        dec == BitOr((((lhs % 256) % 10) * 16) % 256, (rhs % 256) % 10)
        sub_tot == op + (IF CarrySet(c) THEN 0 ELSE 1)
        bin == (c.a + 256 - sub_tot) % 256
        sub == IF DecimalSet(c) THEN dec ELSE bin
        c1 == IF DecimalSet(c) THEN UpdateCarry(c, borrow3 = 0) ELSE UpdateCarry(c, sub_tot <= c.a)
        c2 == UpdateZero(UpdateNegativeFromByte(c1, sub), sub = 0)
        overflow == (c.a < 128 /\ sub > 127) \/ (c.a > 127 /\ sub < 128)
    IN  [cpu |-> [UpdateOverflow(c2, overflow) EXCEPT !.a = sub],
         panic |-> IF checks /\ DecimalSet(c) /\ under
                   THEN "attempt to subtract with overflow" ELSE NoPanic]

\* Cpu::execute_instruction, the arms that write their result with store_to_operand
CpuExecStore(c, flags, result, decoded, m, checks) ==
    CpuStoreToOperand(flags, result, decoded, m, checks)

\* Cpu::execute_instruction, the match on decoded_instruction.instruction
CpuExecute(c, decoded, op, m, checks) ==
    LET i == decoded.instruction
        byte == op % 256
    IN  CASE i = "ADC" -> Done(CpuAdc(c, op), m)
          [] i = "AND" -> Done([UpdateZN(c, BitAnd(c.a, byte)) EXCEPT !.a = BitAnd(c.a, byte)], m)
          [] i = "ASL" ->
                LET result == (op * 2) % 65536
                    f == UpdateZero(UpdateNegativeFromByte(
                            UpdateCarry(c, (result \div 256) % 2 = 1), result % 256),
                            result % 256 = 0)
                IN  CpuExecStore(c, f, result % 256, decoded, m, checks)
          [] i = "BCC" -> CpuExecBranch(c, ~CarrySet(c), op, m, checks)
          [] i = "BCS" -> CpuExecBranch(c, CarrySet(c), op, m, checks)
          [] i = "BEQ" -> CpuExecBranch(c, ZeroSet(c), op, m, checks)
          [] i = "BIT" ->
                Done(UpdateNegativeFromByte(
                        UpdateOverflow(UpdateZero(c, BitAnd(c.a, byte) = 0), (op \div 64) % 2 = 1),
                        byte), m)
          [] i = "BMI" -> CpuExecBranch(c, NegativeSet(c), op, m, checks)
          [] i = "BNE" -> CpuExecBranch(c, ~ZeroSet(c), op, m, checks)
          [] i = "BPL" -> CpuExecBranch(c, ~NegativeSet(c), op, m, checks)
          [] i = "BRK" ->
                LET w == CpuPushWord(c, c.pc, m)
                    b == CpuPushByte(w.cpu, c.p, w.memory)
                    vec == CpuGetWord(65534, b.memory, checks)
                IN  [cpu |-> UpdateBrkCommand([b.cpu EXCEPT !.pc = vec.v], TRUE),
                     memory |-> b.memory, panic |-> vec.panic]
          [] i = "BVC" -> CpuExecBranch(c, ~OverflowSet(c), op, m, checks)
          [] i = "BVS" -> CpuExecBranch(c, OverflowSet(c), op, m, checks)
          [] i = "CLC" -> Done(UpdateCarry(c, FALSE), m)
          [] i = "CLD" -> Done(UpdateDecimal(c, FALSE), m)
          [] i = "CLI" -> Done(UpdateIrqDisable(c, FALSE), m)
          [] i = "CLV" -> Done(UpdateOverflow(c, FALSE), m)
          [] i = "CMP" -> Done(CpuCompare(c, c.a, byte), m)
          [] i = "CPX" -> Done(CpuCompare(c, c.x, byte), m)
          [] i = "CPY" -> Done(CpuCompare(c, c.y, byte), m)
          [] i = "DEC" ->
                LET r == CpuDecrementByte(c, byte)
                IN  CpuExecStore(c, r.cpu, r.v, decoded, m, checks)
          [] i = "DEX" -> LET r == CpuDecrementByte(c, c.x) IN Done([r.cpu EXCEPT !.x = r.v], m)
          [] i = "DEY" -> LET r == CpuDecrementByte(c, c.y) IN Done([r.cpu EXCEPT !.y = r.v], m)
          [] i = "EOR" -> Done([UpdateZN(c, BitXor(c.a, byte)) EXCEPT !.a = BitXor(c.a, byte)], m)
          [] i = "INC" ->
                LET r == CpuIncrementByte(c, byte)
                IN  CpuExecStore(c, r.cpu, r.v, decoded, m, checks)
          [] i = "INX" -> LET r == CpuIncrementByte(c, c.x) IN Done([r.cpu EXCEPT !.x = r.v], m)
          [] i = "INY" -> LET r == CpuIncrementByte(c, c.y) IN Done([r.cpu EXCEPT !.y = r.v], m)
          [] i = "JMP" -> Done([c EXCEPT !.pc = op], m)
          [] i = "JSR" ->
                LET ret_addr == CheckedU16(c.pc - 1, "subtract", checks)
                    w == CpuPushWord(c, ret_addr.v, m)
                IN  IF ret_addr.panic # NoPanic
                    THEN [cpu |-> c, memory |-> m, panic |-> ret_addr.panic]
                    ELSE Done([w.cpu EXCEPT !.pc = op], w.memory)
          [] i = "LDA" ->
                Done([UpdateNegativeFromByte(UpdateZero(c, op = 0), byte) EXCEPT !.a = byte], m)
          [] i = "LDX" ->
                Done([UpdateNegativeFromByte(UpdateZero(c, op = 0), byte) EXCEPT !.x = byte], m)
          [] i = "LDY" ->
                Done([UpdateNegativeFromByte(UpdateZero(c, op = 0), byte) EXCEPT !.y = byte], m)
          [] i = "LSR" ->
                LET result == op \div 2
                    f == UpdateNegativeFromByte(
                            UpdateZero(UpdateCarry(c, op % 2 = 1), result = 0), result % 256)
                IN  CpuExecStore(c, f, result % 256, decoded, m, checks)
          [] i = "NOP" -> Done(c, m)
          [] i = "ORA" -> Done([UpdateZN(c, BitOr(c.a, byte)) EXCEPT !.a = BitOr(c.a, byte)], m)
          [] i = "PHA" -> LET r == CpuPushByte(c, c.a, m) IN Done(r.cpu, r.memory)
          [] i = "PHP" -> LET r == CpuPushByte(c, c.p, m) IN Done(r.cpu, r.memory)
          [] i = "PLA" ->
                LET r == CpuPopByte(c, m) IN Done([UpdateZN(r.cpu, r.v) EXCEPT !.a = r.v], m)
          [] i = "PLP" -> LET r == CpuPopByte(c, m) IN Done([r.cpu EXCEPT !.p = r.v], m)
          [] i = "ROL" ->
                LET result == BitOr((op * 2) % 65536, IF CarrySet(c) THEN 1 ELSE 0)
                    f == UpdateNegativeFromByte(
                            UpdateZero(UpdateCarry(c, (result \div 256) % 2 = 1), result % 256 = 0),
                            result % 256)
                IN  CpuExecStore(c, f, result % 256, decoded, m, checks)
          [] i = "ROR" ->
                LET result == BitOr(op \div 2, IF CarrySet(c) THEN 128 ELSE 0)
                    f == UpdateNegativeFromByte(
                            UpdateZero(UpdateCarry(c, op % 2 = 1), result = 0), result % 256)
                IN  CpuExecStore(c, f, result % 256, decoded, m, checks)
          [] i = "RTI" ->
                LET b == CpuPopByte(c, m)
                    w == CpuPopWord([b.cpu EXCEPT !.p = b.v], m)
                IN  Done([w.cpu EXCEPT !.pc = w.v], m)
          [] i = "RTS" ->
                LET w == CpuPopWord(c, m)
                    to == CheckedU16(w.v + 1, "add", checks)
                IN  [cpu |-> [w.cpu EXCEPT !.pc = to.v], memory |-> m, panic |-> to.panic]
          [] i = "SBC" ->
                LET r == CpuSbc(c, op, checks) IN [cpu |-> r.cpu, memory |-> m, panic |-> r.panic]
          [] i = "SEC" -> Done(UpdateCarry(c, TRUE), m)
          [] i = "SED" -> Done(UpdateDecimal(c, TRUE), m)
          [] i = "SEI" -> Done(UpdateIrqDisable(c, TRUE), m)
          [] i = "STA" -> CpuExecStore(c, c, c.a, decoded, m, checks)
          [] i = "STX" -> CpuExecStore(c, c, c.x, decoded, m, checks)
          [] i = "STY" -> CpuExecStore(c, c, c.y, decoded, m, checks)
          [] i = "TAX" -> Done([UpdateZN(c, c.a) EXCEPT !.x = c.a], m)
          [] i = "TAY" -> Done([UpdateZN(c, c.a) EXCEPT !.y = c.a], m)
          [] i = "TSX" -> Done([UpdateZN(c, c.s) EXCEPT !.x = c.s], m)
          [] i = "TXA" -> Done([UpdateZN(c, c.x) EXCEPT !.a = c.x], m)
          [] i = "TXS" -> Done([c EXCEPT !.s = c.x], m)
          [] i = "TYA" -> Done([UpdateZN(c, c.y) EXCEPT !.a = c.y], m)
          [] OTHER -> Done(c, m)

\* Cpu::instruction_cycles
CpuInstructionCycles(c, decoded, m, checks) ==
    LET i == decoded.instruction
        mode == decoded.addressing_mode
        a == decoded.operand.val
        Flat(n) == [v |-> n, panic |-> NoPanic]
        Plus(n, pen) == [v |-> n + pen.v, panic |-> pen.panic]
    IN  CASE i \in {"ADC", "AND", "BIT", "CMP", "CPX", "CPY", "EOR", "LDA", "LDX", "LDY",
                    "ORA", "SBC"} ->
                (CASE mode = "Immediate" -> Flat(2)
                   [] mode = "ZeroPage" -> Flat(3)
                   [] mode = "ZeroPageOffsetX" -> Flat(4)
                   [] mode = "Absolute" -> Flat(4)
                   [] mode = "AbsoluteOffsetX" ->
                        IF decoded.operand.some
                        THEN Plus(4, CpuPageCrossPenalty(a, c.x, checks)) ELSE Flat(4)
                   [] mode = "AbsoluteOffsetY" ->
                        IF decoded.operand.some
                        THEN Plus(4, CpuPageCrossPenalty(a, c.y, checks)) ELSE Flat(4)
                   [] mode = "OffsetXIndirect" -> Flat(6)
                   [] mode = "IndirectOffsetY" ->
                        IF decoded.operand.some
                        THEN LET addr == CpuGetWord(a, m, checks)
                                 pen == CpuPageCrossPenalty(addr.v, c.y, checks)
                             IN  [v |-> 5 + pen.v, panic |-> FirstPanic(<<addr.panic, pen.panic>>)]
                        ELSE Flat(5)
                   [] OTHER -> Flat(0))
          [] i \in {"ASL", "DEC", "INC", "LSR", "ROL", "ROR"} ->
                (CASE mode = "Accumulator" -> Flat(2)
                   [] mode = "ZeroPage" -> Flat(5)
                   [] mode = "ZeroPageOffsetX" -> Flat(6)
                   [] mode = "Absolute" -> Flat(6)
                   [] mode = "AbsoluteOffsetX" -> Flat(7)
                   [] OTHER -> Flat(0))
          [] i \in {"BCC", "BCS", "BEQ", "BMI", "BNE", "BPL", "BVC", "BVS"} ->
                LET after == CheckedU16(c.previous_pc + 2, "add", checks)
                IN  [v |-> 2 + (IF c.pc # after.v
                                THEN (IF c.pc \div 256 = after.v \div 256 THEN 1 ELSE 2)
                                ELSE 0),
                     panic |-> after.panic]
          [] i = "BRK" -> Flat(7)
          [] i \in {"CLC", "CLD", "CLI", "CLV", "DEX", "DEY", "INX", "INY", "NOP", "SEC",
                    "SED", "SEI", "TAX", "TAY", "TSX", "TXS", "TXA", "TYA"} -> Flat(2)
          [] i = "JMP" ->
                (CASE mode = "AbsoluteLocation" -> Flat(3)
                   [] mode = "IndirectLocation" -> Flat(5)
                   [] OTHER -> Flat(0))
          [] i \in {"JSR", "RTI", "RTS"} -> Flat(6)
          [] i \in {"PHA", "PHP"} -> Flat(3)
          [] i \in {"PLA", "PLP"} -> Flat(4)
          [] i \in {"STA", "STX", "STY"} ->
                (CASE mode = "ZeroPage" -> Flat(3)
                   [] mode = "ZeroPageOffsetX" -> Flat(4)
                   [] mode = "Absolute" -> Flat(4)
                   [] mode = "AbsoluteOffsetX" -> Flat(5)
                   [] mode = "AbsoluteOffsetY" -> Flat(5)
                   [] mode = "OffsetXIndirect" -> Flat(6)
                   [] mode = "IndirectOffsetY" -> Flat(6)
                   [] OTHER -> Flat(0))
          [] OTHER -> Flat(0)

\* Cpu::execute_instruction : one instruction fetched, executed and charged
CpuExecuteInstruction(c, m, checks) ==
    LET Stopped(cc, mm, why, decoded) ==
            [cpu |-> cc, memory |-> mm, panic |-> why, decoded |-> decoded]
        Charged(ex, cycles, decoded) ==
            IF cycles.panic # NoPanic
            THEN Stopped(ex.cpu, ex.memory, cycles.panic, decoded)
            ELSE Stopped([ex.cpu EXCEPT !.cycle = @ + cycles.v], ex.memory, NoPanic, decoded)
        Executed(ex, decoded) ==
            IF ex.panic # NoPanic
            THEN Stopped(ex.cpu, ex.memory, ex.panic, decoded)
            ELSE Charged(ex, CpuInstructionCycles(ex.cpu, decoded, ex.memory, checks), decoded)
        Realised(f, op) ==
            IF op.panic # NoPanic
            THEN Stopped(f.cpu, m, op.panic, f.decoded)
            ELSE Executed(CpuExecute(f.cpu, f.decoded, op.v, m, checks), f.decoded)
        Fetched(f) ==
            IF f.panic # NoPanic
            THEN Stopped(f.cpu, m, f.panic, f.decoded)
            ELSE Realised(f, CpuRealiseOperand(f.cpu, f.decoded, m, checks))
    IN  Fetched(CpuFetchInstruction([c EXCEPT !.previous_pc = c.pc], m, checks))

(***************************************************************************)
(* The state of the emulator.                                              *)
(***************************************************************************)
VARIABLES
    cpu,             \* main: let mut cpu = Cpu::new(debug)
    dvg,             \* main: let mut dvg = Dvg::new(debug, serialoutput)
    memory,          \* main: let mut memory = Memory::new()
    canvas,          \* the primitives drawn on the canvas since canvas.clear()
    presented,       \* the frame shown by the last canvas.present()
    output_size,     \* canvas.output_size()
    overflow_checks, \* whether the build panics on integer overflow
    next_nmi,        \* main: let mut next_nmi = NMI_CYCLES
    next_tick,       \* main: let next_tick
    ctl,             \* where main is: "poll", "run", "dvg", "quit" or "panicked"
    panic,           \* the message of the panic that ended the process, or ""
    last,            \* the step taken last: which unit stepped, and its instruction
    nmis,            \* how many times initiate_nmi has been called
    frames,          \* how many times Dvg::render has returned
    started,         \* the memory the current Dvg::render started on
    trace,           \* the instructions the current Dvg::render has executed
    prev,            \* the last Dvg::render that returned: its memory, instructions, end state
    horizon,         \* the cycle count up to which the processor is followed
    calls            \* the return addresses of the DVG calls that have not returned yet

vars == <<cpu, dvg, memory, canvas, presented, output_size, overflow_checks,
          next_nmi, next_tick, ctl, panic, last, nmis, frames, started, trace, prev,
          horizon, calls>>

NMI_CYCLES == 6000
TICK_CYCLES == 500

(***************************************************************************)
(* Inputs: the ROM file, the window size, the keys, the display lists.     *)
(***************************************************************************)
\* the cycle count up to which the processor is followed
MaxCycle == 6600
\* the cycle count up to which the programs that read the switches are followed
MaxKeyCycle == 1100
\* the cycle count up to which the processor is followed on a prepared display list
MaxDvgCycle == 16
\* the number of instructions of a DVG run that are recorded
MaxTrace == 12

\* the array that holds bytes[1], bytes[2], ... from index `at` on
ArrayAt(at, bytes) ==
    [j \in {at + i - 1 : i \in {k \in 1..Len(bytes) : bytes[k] # 0}} |-> bytes[j - at + 1]]

\* two arrays with disjoint non-zero cells, laid over each other
Overlay(f, g) == [j \in DOMAIN f \cup DOMAIN g |-> IF j \in DOMAIN f THEN f[j] ELSE g[j]]

\* the bytes of a sequence of 16-bit words, low byte first
RECURSIVE WordBytes(_)
WordBytes(ws) ==
    IF ws = <<>> THEN <<>>
    ELSE <<Head(ws) % 256, Head(ws) \div 256>> \o WordBytes(Tail(ws))

\* the program ROM array: code from 0x6800 on, and the NMI, reset and IRQ vectors
\* at 0xFFFA, 0xFFFC and 0xFFFE (0x7FFA.. once masked: cells 6138.. of the array)
RomImage(code, nmi_at, reset_at, irq_at) ==
    Overlay(ArrayAt(0, code),
            ArrayAt(6138, <<nmi_at % 256, nmi_at \div 256, reset_at % 256, reset_at \div 256,
                            irq_at % 256, irq_at \div 256>>))

\* LDA #$B0; STA $4003 (word 1 of the display list: HALT);
\* loop: STA $3000; NOP; INC $10; JMP loop        nmi: RTI
FrameLoopRom ==
    RomImage(<<169, 176, 141, 3, 64, 141, 0, 48, 234, 230, 16, 76, 5, 104, 0, 0, 64>>,
             26640, 26624, 26640)

\* LDA #$B0; STA $4003; loop: BIT $2403; BMI skip; STA $3000; skip: NOP; JMP loop
\* nmi: RTI      (a frame is asked for while the start switch is up)
StartSwitchRom ==
    RomImage(<<169, 176, 141, 3, 64, 44, 3, 36, 48, 3, 141, 0, 48, 234, 76, 5, 104, 64>>,
             26641, 26624, 26641)

\* LDA #$01; STA $4002; LDA #$E0; STA $4003 (word 1: JMPL 1); STA $3000; JMP *
EndlessListRom ==
    RomImage(<<169, 1, 141, 2, 64, 169, 224, 141, 3, 64, 141, 0, 48, 76, 13, 104>>,
             26624, 26624, 26624)

\* LDX #$FF; loop: LDA $2001; STX $2001; PHA; PLA; .byte $02 (no instruction)
BadOpcodeRom ==
    RomImage(<<162, 255, 173, 1, 32, 142, 1, 32, 72, 104, 2>>, 26624, 26624, 26624)

\* LDX #$FF; loop: STX $2001; JMP loop     (writes the clock latch again and again)
LatchWriteRom == RomImage(<<162, 255, 142, 1, 32, 76, 2, 104>>, 26624, 26624, 26624)

\* LDA #$01; loop: STA $3000; JMP loop     (asks for a frame again and again)
TriggerRom == RomImage(<<169, 1, 141, 0, 48, 76, 2, 104>>, 26624, 26624, 26624)

\* the program ROMs the scheduler is run on, each with the cycle count it is followed to
Programs ==
    {[rom |-> FrameLoopRom, cap |-> MaxCycle],
     [rom |-> StartSwitchRom, cap |-> MaxKeyCycle],
     [rom |-> EndlessListRom, cap |-> MaxKeyCycle],
     [rom |-> BadOpcodeRom, cap |-> MaxKeyCycle],
     [rom |-> LatchWriteRom, cap |-> MaxKeyCycle]}

\* the window sizes canvas.output_size() reports
OutputSizes == {<<1024, 832>>}

\* the keys whose events are polled
Keys == {"S", "C", "A", "Escape"}

\* display-list words: VCTR (also the second word of VCTR and LABS), LABS, HALT,
\* JSRL, RTSL, JMPL, SVEC
SampleWords ==
    {0, 37376, 29952, 32768, 42000, 45056, 49153, 49154, 53248, 57345, 57346, 61808,
     61443, 61552}

\* the display lists of at most n sample words
RECURSIVE ListsUpTo(_)
ListsUpTo(n) ==
    IF n = 0 THEN {<<>>}
    ELSE LET shorter == ListsUpTo(n - 1)
         IN  shorter \cup {Append(l, w) : l \in {k \in shorter : Len(k) = n - 1}, w \in SampleWords}

\* calls nested four deep and returning, and a fifth call
DeepLists ==
    {<<49154, 49155, 49156, 49157, 53248>>,
     <<49154, 49155, 49156, 49157, 45056>>,
     <<49154, 49155, 49156, 49157, 49158>>}

\* a jump into the display-processor ROM
RomLists == {<<59392>>, <<51200, 45056>>}

DisplayLists == ListsUpTo(MaxListLen) \cup DeepLists \cup RomLists

\* display-processor ROMs: empty, and HALT, RTSL as its first two words
DvgRoms == {ZeroArray, ArrayAt(0, <<0, 176, 0, 208>>)}

\* display-list RAM holding the list from word 1 on (word 0 is never run)
ListRam(list) == ArrayAt(2, WordBytes(list))

(***************************************************************************)
(* input.rs                                                                *)
(***************************************************************************)
\* update_from_input, were a closed switch to read as 0x01
update_from_input_bit(keycode, active, m) ==
    LET mem_val == IF active THEN 1 ELSE 0 IN
    CASE keycode = "S" -> [m EXCEPT !.mapped_io.sw1start = mem_val]
      [] keycode = "RShift" -> [m EXCEPT !.mapped_io.swfire = mem_val]
      [] keycode = "Z" -> [m EXCEPT !.mapped_io.swrotleft = mem_val]
      [] keycode = "X" -> [m EXCEPT !.mapped_io.swrotrght = mem_val]
      [] keycode = "Slash" -> [m EXCEPT !.mapped_io.swthrust = mem_val]
      [] keycode = "Space" -> [m EXCEPT !.mapped_io.swhyper = mem_val]
      [] keycode = "C" -> set_byte(m, 83, 9)
      [] OTHER -> m

\* update_from_input
update_from_input(keycode, active, m) ==
    LET mem_val == IF active THEN 255 ELSE 0 IN
    CASE keycode = "S" -> [m EXCEPT !.mapped_io.sw1start = mem_val]
      [] keycode = "RShift" -> [m EXCEPT !.mapped_io.swfire = mem_val]
      [] keycode = "Z" -> [m EXCEPT !.mapped_io.swrotleft = mem_val]
      [] keycode = "X" -> [m EXCEPT !.mapped_io.swrotrght = mem_val]
      [] keycode = "Slash" -> [m EXCEPT !.mapped_io.swthrust = mem_val]
      [] keycode = "Space" -> [m EXCEPT !.mapped_io.swhyper = mem_val]
      [] keycode = "C" -> set_byte(m, 83, 9)
      [] OTHER -> m

(***************************************************************************)
(* main.rs : the scheduler loop.                                           *)
(***************************************************************************)
\* a tick target two multiples of 500 ahead
NextTickTwoAhead(cycle) == ((cycle \div TICK_CYCLES) + 2) * TICK_CYCLES

\* let next_tick = ((cpu.cycle / 500) + 1) * 500
NextTick(cycle) == ((cycle \div TICK_CYCLES) + 1) * TICK_CYCLES

\* an inner loop that does not look at the begin-frame flag
CpuMayStepAnyway(c, m, tick) == c.cycle < tick

\* while cpu.cycle < next_tick && memory.mapped_io.godvg == 0
CpuMayStep(c, m, tick) == c.cycle < tick /\ m.mapped_io.godvg = 0

\* if cpu.cycle >= next_nmi
NmiDue(cycle, target) == cycle >= target

\* an interrupt target that is never advanced
NextNmiStuck(target) == target

\* next_nmi += NMI_CYCLES
NextNmi(target) == target + NMI_CYCLES

\* if memory.mapped_io.godvg != 0
RenderWanted(m) == m.mapped_io.godvg # 0

\* memory.mapped_io.clck3khz = ((cpu.cycle / 500) & 0xFF) as u8
ClockLatch(cycle) == (cycle \div TICK_CYCLES) % 256

\* Dvg::render, up to its loop: the two flags written, the processor reset
RenderStart(d, m) ==
    [dvg |-> DvgReset(d),
     memory |-> [m EXCEPT !.mapped_io.halt = 255, !.mapped_io.godvg = 0]]

\* a render loop that is over at once
DvgRunningNever(m) == FALSE

\* a render loop that turns while the begin-frame flag is up, which render has
\* already cleared
DvgRunningWhileAsked(m) == m.mapped_io.godvg # 0

\* Dvg::render : while memory.mapped_io.halt != 0
DvgRunning(m) == m.mapped_io.halt # 0

\* the DVG states a run is followed through
Followed(d, cv) ==
    /\ d.pc <= MaxDvgPc \/ d.pc \in {2048, 2049}
    /\ Len(cv) < MaxPrims
    /\ d.x >= -MaxCoord /\ d.x <= MaxCoord
    /\ d.y >= -MaxCoord /\ d.y <= MaxCoord

NoStep == [unit |-> "none", op |-> "", nmi |-> FALSE]
NoRun == [start |-> NewMemory(ZeroArray, ZeroArray), trace |-> <<>>, dvg |-> NewDvg]

\* the state main enters its loop in: the ROM file read, the processor reset
InitOn(dvg_rom, game_rom, dvg_ram, cap) ==
    /\ overflow_checks \in BOOLEAN
    /\ output_size \in OutputSizes
    /\ memory = [NewMemory(dvg_rom, game_rom) EXCEPT !.dvg_ram = dvg_ram]
    /\ cpu = CpuReset(NewCpu, memory, overflow_checks)
    /\ dvg = NewDvg
    /\ canvas = <<>>
    /\ presented = <<>>
    /\ next_nmi = NMI_CYCLES
    /\ next_tick = 0
    /\ ctl = "poll"
    /\ panic = NoPanic
    /\ last = NoStep
    /\ nmis = 0
    /\ frames = 0
    /\ started = NewMemory(ZeroArray, ZeroArray)
    /\ trace = <<>>
    /\ prev = NoRun
    /\ horizon = cap
    /\ calls = <<>>

Init == \E prog \in Programs : InitOn(ZeroArray, prog.rom, ZeroArray, prog.cap)

\* Event::KeyDown
KeyDown ==
    /\ ctl = "poll"
    /\ \E keycode \in Keys :
          IF keycode = "Escape"
          THEN ctl' = "quit" /\ memory' = memory
          ELSE ctl' = ctl /\ memory' = update_from_input(keycode, TRUE, memory)
    /\ UNCHANGED <<cpu, dvg, canvas, presented, output_size, overflow_checks, next_nmi,
                   next_tick, panic, last, nmis, frames, started, trace, prev, horizon, calls>>

\* Event::KeyUp
KeyUp ==
    /\ ctl = "poll"
    /\ \E keycode \in Keys : memory' = update_from_input(keycode, FALSE, memory)
    /\ UNCHANGED <<cpu, dvg, canvas, presented, output_size, overflow_checks, next_nmi,
                   next_tick, ctl, panic, last, nmis, frames, started, trace, prev, horizon, calls>>

\* Event::Quit
Quit ==
    /\ ctl = "poll"
    /\ ctl' = "quit"
    /\ UNCHANGED <<cpu, dvg, memory, canvas, presented, output_size, overflow_checks,
                   next_nmi, next_tick, panic, last, nmis, frames, started, trace, prev,
                   horizon, calls>>

\* the events are drained: a tick of 500 cycles begins
TickBegin ==
    /\ ctl = "poll"
    /\ next_tick' = NextTick(cpu.cycle)
    /\ ctl' = "run"
    /\ UNCHANGED <<cpu, dvg, memory, canvas, presented, output_size, overflow_checks,
                   next_nmi, panic, last, nmis, frames, started, trace, prev, horizon, calls>>

\* one turn of the inner loop: an instruction, then the interrupt check
CpuStep ==
    /\ ctl = "run"
    /\ CpuMayStep(cpu, memory, next_tick)
    /\ cpu.cycle < horizon
    /\ \E r \in {CpuExecuteInstruction(cpu, memory, overflow_checks)} :
          /\ last' = [unit |-> "cpu", op |-> r.decoded.instruction,
                      nmi |-> r.panic = NoPanic /\ NmiDue(r.cpu.cycle, next_nmi)]
          /\ IF r.panic = NoPanic /\ NmiDue(r.cpu.cycle, next_nmi)
             THEN \E n \in {CpuInitiateNmi(r.cpu, r.memory, overflow_checks)} :
                     /\ cpu' = n.cpu
                     /\ memory' = n.memory
                     /\ next_nmi' = NextNmi(next_nmi)
                     /\ nmis' = nmis + 1
                     /\ panic' = n.panic
                     /\ ctl' = IF n.panic # NoPanic THEN "panicked" ELSE ctl
             ELSE /\ cpu' = r.cpu
                  /\ memory' = r.memory
                  /\ panic' = r.panic
                  /\ ctl' = IF r.panic # NoPanic THEN "panicked" ELSE ctl
                  /\ UNCHANGED <<next_nmi, nmis>>
    /\ UNCHANGED <<dvg, canvas, presented, output_size, overflow_checks, next_tick,
                   frames, started, trace, prev, horizon, calls>>

\* Dvg::render is called: flags, reset, canvas.clear()
RenderBegin ==
    /\ ctl = "run"
    /\ RenderWanted(memory)
    /\ \E r \in {RenderStart(dvg, memory)} :
          /\ dvg' = r.dvg
          /\ memory' = r.memory
          /\ started' = r.memory
    /\ canvas' = <<>>
    /\ trace' = <<>>
    /\ calls' = <<>>
    /\ ctl' = "dvg"
    /\ last' = [unit |-> "render", op |-> "", nmi |-> FALSE]
    /\ UNCHANGED <<cpu, presented, output_size, overflow_checks, next_nmi, next_tick,
                   panic, nmis, frames, prev, horizon>>

\* one turn of the loop of Dvg::render, the processor left as `c`
DvgStep(c) ==
    /\ ctl = "dvg"
    /\ DvgRunning(memory)
    /\ Followed(dvg, canvas)
    /\ \E r \in {DvgExecuteInstruction(dvg, memory, canvas, output_size, overflow_checks)} :
          /\ dvg' = r.dvg
          /\ memory' = r.memory
          /\ canvas' = r.canvas
          /\ panic' = r.panic
          /\ ctl' = IF r.panic # NoPanic THEN "panicked" ELSE ctl
          /\ last' = [unit |-> "dvg", op |-> r.op, nmi |-> FALSE]
          /\ trace' = IF Len(trace) < MaxTrace THEN Append(trace, r.op) ELSE trace
          /\ calls' = CASE r.op = "JSRL" /\ r.panic = NoPanic -> Append(calls, dvg.pc + 1)
                        [] r.op = "RTSL" /\ r.panic = NoPanic -> SubSeq(calls, 1, Len(calls) - 1)
                        [] OTHER -> calls
    /\ cpu' = c
    /\ UNCHANGED <<presented, output_size, overflow_checks, next_nmi, next_tick, nmis,
                   frames, started, prev, horizon>>

\* a display-list instruction that costs the processor a cycle
DvgExecuteCharged == DvgStep([cpu EXCEPT !.cycle = @ + 1])

\* one turn of the loop of Dvg::render
DvgExecute == DvgStep(cpu)

\* the loop of Dvg::render is over: canvas.present(), and back in main
RenderEnd ==
    /\ ctl = "dvg"
    /\ ~DvgRunning(memory)
    /\ presented' = canvas
    /\ frames' = frames + 1
    /\ prev' = [start |-> started, trace |-> trace, dvg |-> dvg]
    /\ ctl' = "run"
    /\ last' = [unit |-> "present", op |-> "", nmi |-> FALSE]
    /\ UNCHANGED <<cpu, dvg, memory, canvas, output_size, overflow_checks, next_nmi,
                   next_tick, panic, nmis, started, trace, horizon, calls>>

\* a tick that ends without writing the clock latch
TickEndKeepsLatch ==
    /\ ctl = "run"
    /\ ~(cpu.cycle < next_tick)
    /\ ~RenderWanted(memory)
    /\ memory' = memory
    /\ ctl' = "poll"
    /\ last' = [unit |-> "tick", op |-> "", nmi |-> FALSE]
    /\ UNCHANGED <<cpu, dvg, canvas, presented, output_size, overflow_checks, next_nmi,
                   next_tick, panic, nmis, frames, started, trace, prev, horizon, calls>>

\* the tick is over: the clock latch is written
TickEnd ==
    /\ ctl = "run"
    /\ ~(cpu.cycle < next_tick)
    /\ ~RenderWanted(memory)
    /\ memory' = [memory EXCEPT !.mapped_io.clck3khz = ClockLatch(cpu.cycle)]
    /\ ctl' = "poll"
    /\ last' = [unit |-> "tick", op |-> "", nmi |-> FALSE]
    /\ UNCHANGED <<cpu, dvg, canvas, presented, output_size, overflow_checks, next_nmi,
                   next_tick, panic, nmis, frames, started, trace, prev, horizon, calls>>

Next ==
    \/ KeyDown
    \/ KeyUp
    \/ Quit
    \/ TickBegin
    \/ CpuStep
    \/ RenderBegin
    \/ DvgExecute
    \/ RenderEnd
    \/ TickEnd

Spec == Init /\ [][Next]_vars

(***************************************************************************)
(* The scheduler on a program that asks for a frame again and again, the   *)
(* display list already in display-list RAM.                               *)
(***************************************************************************)
InitDvg ==
    \E list \in DisplayLists, dvg_rom \in DvgRoms :
        InitOn(dvg_rom, TriggerRom, ListRam(list), MaxDvgCycle)

NextDvg ==
    \/ TickBegin
    \/ CpuStep
    \/ RenderBegin
    \/ DvgExecute
    \/ RenderEnd

SpecDvg == InitDvg /\ [][NextDvg]_vars

\* the loop of Dvg::render keeps turning: weak fairness of DvgExecute, with
\* ENABLED <<DvgExecute>>_vars written out as the condition of the loop
DvgExecuteFair ==
    \/ []<>~(ctl = "dvg" /\ DvgRunning(memory) /\ Followed(dvg, canvas))
    \/ []<><<ctl = "dvg" /\ DvgRunning(memory)>>_vars

\* the process keeps running: once in Dvg::render, the next turn of its loop,
\* or the return that follows the last, is taken
SpecDvgFair == SpecDvg /\ WF_vars(RenderEnd) /\ DvgExecuteFair

(***************************************************************************)
(* The scheduler and the begin-frame flag.                                 *)
(***************************************************************************)
\* C1: the processor executes an instruction only while the begin-frame flag
\* (godvg) is zero.  Once an instruction has left the flag non-zero, the one
\* step main can take is the call of Dvg::render: no instruction and no end of
\* tick comes first.  Every call of Dvg::render follows an instruction directly,
\* so there is exactly one run for each instruction that sets the flag, and the
\* flag is zero when the run returns.
C1_FrameBeforeNextInstruction ==
    [][/\ CpuStep => ~RenderWanted(memory)
       /\ TickEnd => ~RenderWanted(memory)
       /\ (ctl = "run" /\ RenderWanted(memory)) => RenderBegin
       /\ RenderBegin => (last.unit = "cpu" /\ ~RenderWanted(memory'))
       /\ RenderEnd => ~RenderWanted(memory')
       /\ (ctl = "dvg" /\ ctl' = "run") => RenderEnd]_vars

\* two frames have been drawn and the processor has gone on since
C1_Witness == frames >= 2 /\ last.unit = "cpu" /\ ctl = "run"

\* C2: from the call of Dvg::render to its return, the reset and every
\* display-list instruction included, the cycle counter of the processor keeps
\* its value, whatever the display list holds.
C2_RenderKeepsCycle ==
    [][(ctl = "dvg" \/ ctl' = "dvg") => cpu'.cycle = cpu.cycle]_vars

\* a run of at least two instructions has returned
C2_Witness == frames >= 1 /\ Len(prev.trace) >= 2 /\ ctl = "run"

\* C3: between two turns of the inner loop the cycle counter is below the
\* interrupt target, the target is the next multiple of 6000, and the number of
\* calls of initiate_nmi is floor(cycle / 6000): one call for each crossing.
C3_OneNmiPerCrossing ==
    /\ cpu.cycle < next_nmi
    /\ next_nmi = (nmis + 1) * NMI_CYCLES
    /\ nmis = cpu.cycle \div NMI_CYCLES

\* the counter has passed 6000, the interrupt has been entered and returned from
C3_Witness == nmis = 1 /\ cpu.cycle > NMI_CYCLES + 20 /\ ~last.nmi /\ panic = NoPanic

(***************************************************************************)
(* The display-list processor.                                             *)
(***************************************************************************)
\* the display-list word at word address pc
DvgWordAt(m, pc) == DvgLoadFromPc([NewDvg EXCEPT !.pc = pc], m, FALSE).word

\* the instruction Dvg::execute_instruction is about to execute
DvgNextOp == DvgInstructionFromWord(DvgWordAt(memory, dvg.pc))

\* a run of Dvg::render that goes on past every instruction count recorded
DvgRunsOn == ctl = "dvg" /\ Len(trace) = MaxTrace /\ DvgRunning(memory) /\ Followed(dvg, canvas)

\* C4 as claimed: every run of Dvg::render that is followed comes to an end, by
\* HALT or by a panic, and main goes on.
C4_EveryRunEnds == (ctl = "dvg") ~> (ctl # "dvg" \/ ~Followed(dvg, canvas))

\* C4 as the code has it: a run of Dvg::render ends in one of two ways only.
\* It returns to main after a HALT instruction has cleared the halt flag, or the
\* process panics (a stack fault, or an arithmetic overflow in a build with
\* overflow checks).  A display list that jumps back on itself without a HALT
\* keeps the run, and with it main, going for ever.
C4_RunEndsOnlyByHaltOrPanic ==
    [][(ctl = "dvg" /\ ctl' # "dvg") =>
          \/ ctl' = "run" /\ last.unit = "dvg" /\ last.op = "HALT" /\ ~DvgRunning(memory)
          \/ ctl' = "panicked" /\ panic' # NoPanic /\ last'.unit = "dvg"]_vars

\* a run is past its twelfth instruction, the halt flag still set
C4_Witness == DvgRunsOn /\ last.op = "JMPL"

\* C5: while no fault has been raised the stack pointer is in 0..4; a JSRL that
\* does not fault writes stack[sp] with sp in 0..3, and an RTSL that does not
\* fault reads stack[sp - 1] with sp - 1 in 0..3.
C5_StackPointerInRange ==
    panic = NoPanic =>
        /\ dvg.sp \in 0..4
        /\ DOMAIN dvg.stack = 0..3
        /\ DvgJsrl(dvg, 0).panic = NoPanic => dvg.sp \in 0..3
        /\ DvgRtsl(dvg).panic = NoPanic => (dvg.sp - 1) \in 0..3

\* four calls are open and no fault has been raised
C5_Witness == dvg.sp = 4 /\ panic = NoPanic /\ ctl = "dvg"

\* C6: JSRL with four calls open panics with "DVG stack overflow", RTSL with
\* none open panics with "DVG stack underflow"; the panic comes before the
\* push, the pop and the jump, so that the stack and the stack pointer are as
\* they were and the program counter is where the fetch of the instruction word
\* left it.  JSRL with fewer than four calls open and RTSL with at least one
\* raise no stack fault.
C6_StackFaults ==
    [][DvgExecute =>
          /\ (DvgNextOp = "JSRL" /\ dvg.sp = 4) =>
                /\ panic' = "DVG stack overflow"
                /\ dvg'.stack = dvg.stack /\ dvg'.sp = dvg.sp /\ dvg'.pc = dvg.pc + 1
          /\ (DvgNextOp = "RTSL" /\ dvg.sp = 0) =>
                /\ panic' = "DVG stack underflow"
                /\ dvg'.stack = dvg.stack /\ dvg'.sp = dvg.sp /\ dvg'.pc = dvg.pc + 1
          /\ (DvgNextOp = "JSRL" /\ dvg.sp < 4) => panic' = NoPanic
          /\ (DvgNextOp = "RTSL" /\ dvg.sp > 0) => panic' = NoPanic]_vars

\* a fifth call has been refused
C6_Witness == panic = "DVG stack overflow" /\ dvg.sp = 4

\* C7: `calls` holds, oldest first, the address of the word after each JSRL
\* that has not returned.  The stack pointer is the number of open calls and
\* the stack holds their return addresses; an RTSL returns to the word after
\* the latest open JSRL and leaves the stack pointer as it was before that JSRL.
C7_CallReturn ==
    [][DvgExecute =>
          /\ dvg.sp = Len(calls)
          /\ \A i \in 1..Len(calls) : dvg.stack[i - 1] = calls[i]
          /\ Len(calls) <= 4
          /\ (DvgNextOp = "RTSL" /\ panic' = NoPanic) =>
                /\ dvg'.pc = calls[Len(calls)]
                /\ dvg'.sp = Len(calls) - 1
                /\ calls' = SubSeq(calls, 1, Len(calls) - 1)
          /\ (DvgNextOp = "JSRL" /\ panic' = NoPanic) =>
                /\ dvg'.sp = Len(calls) + 1
                /\ dvg'.pc = DvgWordAt(memory, dvg.pc) % 4096
                /\ calls' = Append(calls, dvg.pc + 1)]_vars

\* a call made with three calls open has returned
C7_Witness == last.op = "RTSL" /\ panic = NoPanic /\ Len(calls) = 3 /\ ctl = "dvg"

\* C8: every run of Dvg::render starts from program counter 1, beam (0, 0),
\* scale 0 and an empty stack, whatever the run before it (or Dvg::new) left;
\* and a run that started on the same memory as the run before it has, when it
\* returns, executed the same instructions, drawn the same primitives and
\* ended in the same state.
C8_StatelessBetweenFrames ==
    [][/\ RenderBegin =>
             dvg' = [pc |-> 1, x |-> 0, y |-> 0, sf |-> 0, stack |-> [i \in 0..3 |-> 0],
                     sp |-> 0]
       /\ (RenderEnd /\ frames >= 1 /\ started = prev.start) =>
             /\ trace = prev.trace
             /\ canvas = presented
             /\ dvg = prev.dvg]_vars

\* a second run on the same memory has returned, the first having left the
\* beam away from (0, 0) and a primitive on the canvas
C8_Witness ==
    /\ frames >= 2 /\ started = prev.start
    /\ prev.dvg.x # 0 /\ Len(presented) >= 1

\* the fields of the VCTR or SVEC instruction at the program counter
DvgNextFields ==
    IF DvgNextOp = "VCTR"
    THEN DvgVctrFields(dvg, DvgWordAt(memory, dvg.pc), DvgWordAt(memory, dvg.pc + 1))
    ELSE DvgSvecFields(dvg, DvgWordAt(memory, dvg.pc))

\* the primitive that joins beam positions (x, y) and (ox, oy) at intensity z
DvgPrimitive(x, y, ox, oy, z) ==
    IF x = ox /\ y = oy
    THEN [kind |-> "filled_circle", x |-> DvgScreenX(x, output_size[1]),
          y |-> DvgScreenY(y, output_size[2], FALSE).v, rad |-> 2, color |-> DvgColor(z)]
    ELSE [kind |-> "line", x1 |-> DvgScreenX(x, output_size[1]),
          y1 |-> DvgScreenY(y, output_size[2], FALSE).v,
          x2 |-> DvgScreenX(ox, output_size[1]),
          y2 |-> DvgScreenY(oy, output_size[2], FALSE).v, color |-> DvgColor(z)]

\* C9: a VCTR or SVEC instruction that does not panic moves the beam to the
\* end point computed from its fields.  With intensity 0 it draws nothing; with
\* intensity z > 0 it draws one primitive in the colour of z: a line between the
\* new and the old beam position when they differ, a filled circle at the
\* position when they are equal.
C9_VectorDrawsOnePrimitive ==
    [][(DvgExecute /\ DvgNextOp \in {"VCTR", "SVEC"} /\ panic' = NoPanic) =>
          LET f == DvgNextFields IN
          /\ dvg'.x = DvgEndpoint(dvg.x, f.delta_x, f.xs, f.shift_bits, FALSE).v
          /\ dvg'.y = DvgEndpoint(dvg.y, f.delta_y, f.ys, f.shift_bits, FALSE).v
          /\ f.z = 0 => canvas' = canvas
          /\ f.z > 0 =>
                canvas' = Append(canvas, DvgPrimitive(dvg'.x, dvg'.y, dvg.x, dvg.y, f.z))]_vars

\* the beam has been moved blank, a line and a filled circle have been drawn
C9_Witness ==
    /\ last.op \in {"VCTR", "SVEC"} /\ panic = NoPanic
    /\ \E i \in 1..Len(canvas) : canvas[i].kind = "line"
    /\ \E i \in 1..Len(canvas) : canvas[i].kind = "filled_circle"
    /\ Len(canvas) < Len(trace)

(***************************************************************************)
(* The memory bus on its own: Memory::get_byte and Memory::set_byte called  *)
(* with addresses from every range of the map and from its upper mirror.    *)
(***************************************************************************)
\* a bus on which the game ROM arm starts one page early
RegionAccessRomEarly(addr) ==
    LET a == MaskAddr(addr) IN
    CASE a < 1024 -> [region |-> "game_ram", index |-> a, size |-> GAME_RAM_SIZE]
      [] a >= 16384 /\ a < 20480 ->
            [region |-> "dvg_ram", index |-> a - 16384, size |-> DVG_RAM_SIZE]
      [] a >= 20480 /\ a < 22528 ->
            [region |-> "dvg_rom", index |-> a - 20480, size |-> DVG_ROM_SIZE]
      [] a >= 26624 -> [region |-> "game_rom", index |-> a - 26368, size |-> GAME_ROM_SIZE]
      [] OTHER -> [region |-> "none", index |-> 0, size |-> 1]

\* the array and the index that the match arm of get_byte or set_byte selected
\* by addr uses, and the length of that array
RegionAccess(addr) ==
    LET a == MaskAddr(addr) IN
    CASE a < 1024 -> [region |-> "game_ram", index |-> a, size |-> GAME_RAM_SIZE]
      [] a >= 16384 /\ a < 20480 ->
            [region |-> "dvg_ram", index |-> a - 16384, size |-> DVG_RAM_SIZE]
      [] a >= 20480 /\ a < 22528 ->
            [region |-> "dvg_rom", index |-> a - 20480, size |-> DVG_ROM_SIZE]
      [] a >= 26624 -> [region |-> "game_rom", index |-> a - 26624, size |-> GAME_ROM_SIZE]
      [] OTHER -> [region |-> "none", index |-> 0, size |-> 1]

\* the panic of an array index that is not below the array's length
BusFault(addr) ==
    IF RegionAccess(addr).index < 0 \/ RegionAccess(addr).index >= RegionAccess(addr).size
    THEN "index out of bounds" ELSE NoPanic

\* the first and last address of each decoded range, the ports, and holes
LowAddrs ==
    {0, 1023, 1024, 8193, 8194, 9219, 12288, 15365, 16384, 20479, 20480, 20481,
     22527, 22528, 26624, 32764, 32767}

\* and the same addresses with bit 15 set
BusAddrs == LowAddrs \cup {a + 32768 : a \in LowAddrs}

BusBytes == {0, 255}

\* the memory of a machine that is running TriggerRom, inside or outside
\* Dvg::render, with the start switch up or down
InitMem ==
    /\ overflow_checks \in BOOLEAN
    /\ output_size \in OutputSizes
    /\ \E halt \in {0, 255}, start \in BOOLEAN :
          memory = update_from_input("S", start,
                      [NewMemory(ArrayAt(0, <<0, 176, 0, 208>>), TriggerRom)
                          EXCEPT !.mapped_io.halt = halt])
    /\ cpu = CpuReset(NewCpu, memory, overflow_checks)
    /\ dvg = NewDvg
    /\ canvas = <<>>
    /\ presented = <<>>
    /\ next_nmi = NMI_CYCLES
    /\ next_tick = 0
    /\ ctl = "bus"
    /\ panic = NoPanic
    /\ last = NoStep
    /\ nmis = 0
    /\ frames = 0
    /\ started = NewMemory(ZeroArray, ZeroArray)
    /\ trace = <<>>
    /\ prev = NoRun
    /\ horizon = 0
    /\ calls = <<>>

\* memory.get_byte(addr)
BusRead ==
    /\ ctl = "bus" /\ panic = NoPanic
    /\ \E addr \in BusAddrs :
          /\ panic' = BusFault(addr)
          /\ last' = [unit |-> "bus", op |-> "get_byte", nmi |-> FALSE,
                      addr |-> addr, byte |-> get_byte(memory, addr)]
    /\ UNCHANGED << cpu, dvg, memory, canvas, presented, output_size, overflow_checks,
                    next_nmi, next_tick, ctl, nmis, frames, started, trace, prev,
                    horizon, calls >>

\* memory.set_byte(addr, byte)
BusWrite ==
    /\ ctl = "bus" /\ panic = NoPanic
    /\ \E addr \in BusAddrs, byte \in BusBytes :
          /\ panic' = BusFault(addr)
          /\ memory' = IF BusFault(addr) = NoPanic THEN set_byte(memory, addr, byte)
                        ELSE memory
          /\ last' = [unit |-> "bus", op |-> "set_byte", nmi |-> FALSE,
                      addr |-> addr, byte |-> byte]
    /\ UNCHANGED << cpu, dvg, canvas, presented, output_size, overflow_checks,
                    next_nmi, next_tick, ctl, nmis, frames, started, trace, prev,
                    horizon, calls >>

NextMem == BusRead \/ BusWrite

SpecMem == InitMem /\ [][NextMem]_vars

\* C10: the bus ignores address bit 15.  In every state, for every address A
\* below 0x8000 and byte b: a read of A and a read of A | 0x8000 return the same
\* byte; a write of b to A and a write of b to A | 0x8000 leave the same
\* memory; and when A is in game RAM or DVG RAM, a write of b to A followed by
\* a read of A | 0x8000 returns b.
C10_Bit15Ignored ==
    \A A \in LowAddrs :
        /\ get_byte(memory, A) = get_byte(memory, A + 32768)
        /\ \A b \in BusBytes :
              /\ set_byte(memory, A, b) = set_byte(memory, A + 32768, b)
              /\ (A < 1024 \/ (A >= 16384 /\ A < 20480)) =>
                    get_byte(set_byte(memory, A, b), A + 32768) = b

\* a non-zero byte written through the upper mirror is in RAM, and a ROM
\* byte has been read through the upper mirror
C10_Witness ==
    \/ /\ last.unit = "bus" /\ last.op = "set_byte"
       /\ last.addr >= 32768 /\ last.byte # 0
       /\ get_byte(memory, last.addr - 32768) = last.byte
    \/ /\ last.unit = "bus" /\ last.op = "get_byte"
       /\ last.addr >= 32768 + 20480 /\ last.byte # 0

\* the addresses set_byte stores at: the two RAM ranges and the output ports
BusRam(a) == a < 1024 \/ (a >= 16384 /\ a < 20480)
BusOutputPorts == {8193, 12288, 13824, 14848, 15360, 15361, 15362, 15363, 15364, 15365}

\* the cells of a RAM array that differ between two memories
ChangedCells(old, new) ==
    {j \in DOMAIN old \cup DOMAIN new : Peek(old, j) # Peek(new, j)}

\* C11: a write whose masked address is in DVG ROM, in game ROM, or is neither
\* RAM nor an output port (the halt flag and the switches among them) leaves
\* the whole memory as it was; a write to a RAM address changes at most the
\* one byte addressed, which then holds the byte written.
C11_WriteFrame ==
    [][(ctl = "bus" /\ last'.unit = "bus" /\ last'.op = "set_byte") =>
          LET a == last'.addr % 32768
              b == last'.byte IN
          /\ (~BusRam(a) /\ a \notin BusOutputPorts) => memory' = memory
          /\ BusRam(a) =>
                /\ memory'.mapped_io = memory.mapped_io
                /\ memory'.dvg_rom = memory.dvg_rom
                /\ memory'.game_rom = memory.game_rom
                /\ a < 1024 =>
                      /\ memory'.dvg_ram = memory.dvg_ram
                      /\ ChangedCells(memory.game_ram, memory'.game_ram) \subseteq {a}
                      /\ Peek(memory'.game_ram, a) = b
                /\ a >= 16384 =>
                      /\ memory'.game_ram = memory.game_ram
                      /\ ChangedCells(memory.dvg_ram, memory'.dvg_ram) \subseteq {a - 16384}
                      /\ Peek(memory'.dvg_ram, a - 16384) = b]_vars

\* 255 has been written to the halt flag's address while the flag was 0, and
\* to a ROM address, with RAM holding bytes written before
C11_Witness ==
    /\ last.unit = "bus" /\ last.op = "set_byte" /\ last.byte = 255
    /\ \/ last.addr % 32768 = 8194 /\ memory.mapped_io.halt = 0
       \/ last.addr % 32768 = 20481
    /\ DOMAIN memory.game_ram # {} /\ DOMAIN memory.dvg_ram # {}

\* the addresses get_byte has an arm for besides the four arrays
BusInputPorts == {8193, 8194, 8195, 8196, 9219, 9221, 9222, 9223}

\* C12: get_byte and set_byte complete for every address: no call indexes an
\* array at or beyond its length.  A read whose masked address is outside the
\* four arrays and is not a readable port returns 0, also at the write-only
\* ports (godvg at 0x3000, the sound latches) after they have been written.
C12_BusTotal ==
    /\ panic = NoPanic
    /\ \A A \in BusAddrs :
          /\ BusFault(A) = NoPanic
          /\ LET a == A % 32768 IN
             (~BusRam(a) /\ ~(a >= 20480 /\ a < 22528) /\ a < 26624 /\ a \notin BusInputPorts)
                => get_byte(memory, A) = 0

\* godvg and a sound latch hold 255, godvg has been read as 0, and the last
\* byte of game ROM has been reached through the highest address
C12_Witness ==
    /\ memory.mapped_io.godvg = 255 /\ memory.mapped_io.sndbonus = 255
    /\ last.unit = "bus" /\ last.op = "get_byte"
    /\ \/ last.addr % 32768 = 12288 /\ last.byte = 0
       \/ last.addr = 65535
    /\ RegionAccess(65535).index = GAME_ROM_SIZE - 1

(***************************************************************************)
(* The processor on its own: Cpu::execute_instruction and Cpu::initiate_nmi *)
(* applied to short programs in game RAM, from every status byte and from   *)
(* stack pointers at both ends of the stack page.                           *)
(***************************************************************************)
\* the instructions and interrupt entries followed from each initial state
MaxCpuSteps == 3

\* game ROM: `RTI` at 0x6800, the IRQ/BRK handler, and at 0x6801, the NMI handler
CpuRom == RomImage(<<64, 64>>, 26625, 26624, 26624)

\* the status bytes that differ in the flags N, V, Z and C
BranchFlags == {n * 128 + v * 64 + z * 2 + c : n \in {0, 1}, v \in {0, 1}, z \in {0, 1}, c \in {0, 1}}

\* programs, each with the address it is placed at, the program ROM beside it,
\* and the status bytes, stack pointers and registers it is started with:
\*   every opcode byte, followed by the operand bytes $10 $02, also with A and
\*   X holding 0x81;
\*   PHP; PLP
\*   BRK; NOP; NOP   (the handler in ROM returns with RTI)
\*   every relative branch, by every displacement of a sample, placed so that
\*   the instruction after it starts a page, ends one, or is inside one
\*   every indexed read, from bases at the start, in the middle and at the end
\*   of a page and at the end of the address space, by indexes 0, 1 and 255
\*   ADC #operand, over accumulators and operands on both sides of 127/128
\*   ADC #operand and SBC #operand in decimal mode, over accumulators and
\*   operands that hold two decimal digits, carry clear and set
\*   PHA; LDA #0; PLA, from every stack pointer
\*   JSR sub; NOP; sub: RTS, from every stack pointer
\*   STA operand,X; LDA #0; LDA operand,X with a zero-page and with an absolute
\*   operand, the same indexed by Y, and STX operand,Y; LDX #0; LDX operand,Y,
\*   with indexes that do and do not carry out of the low byte
\*   LDA #$42; STA $10; BRK in program ROM at the reset vector, as after reset
CpuPrograms ==
    LET Plain(code, at, ps, ss) ==
            [code |-> code, at |-> at, ps |-> ps, ss |-> ss, as |-> {0}, xs |-> {0},
             ys |-> {0}, rom |-> CpuRom]
        Bytes == {0, 1, 80, 127, 128, 160, 255}
        \* bytes that hold two decimal digits
        Bcd == {0, 1, 9, 16, 25, 69, 80, 85, 144, 153}
        \* ORA, AND, EOR, ADC, LDA, CMP, SBC absolute indexed by X, and LDY
        LoadAbsX == {29, 61, 93, 125, 189, 221, 253, 188}
        \* ORA, AND, EOR, ADC, LDA, CMP, SBC absolute indexed by Y, and LDX
        LoadAbsY == {25, 57, 89, 121, 185, 217, 249, 190}
    IN  {Plain(<<op, 16, 2>>, 512, {0, 36, 255}, {253}) : op \in 0..255}
        \cup {[Plain(<<op, 16, 2>>, 512, {0, 255}, {253}) EXCEPT
                  !.as = {0, 129}, !.xs = {0, 129}] : op \in 0..255}
        \cup {Plain(<<8, 40>>, 512, 0..255, {0, 1, 127, 255})}
        \cup {Plain(<<0, 234, 234>>, 512, 0..255, {0, 1, 2, 3, 253, 255})}
        \cup {Plain(<<op, disp>>, at, BranchFlags, {253}) :
                 op \in {16, 48, 80, 112, 144, 176, 208, 240},
                 disp \in {0, 1, 2, 127, 128, 253, 254, 255},
                 at \in {512, 764, 765, 766}}
        \cup {[Plain(<<op, base % 256, base \div 256>>, 512, {0}, {253}) EXCEPT
                  !.xs = {0, 1, 255}, !.ys = {0, 1, 255}] :
                 op \in LoadAbsX \cup LoadAbsY, base \in {16, 255, 256, 767, 65535}}
        \cup {[Plain(<<105, operand>>, 512, {0, 1}, {253}) EXCEPT !.as = Bytes] :
                 operand \in Bytes}
        \cup {[Plain(<<op, operand>>, 512, {8, 9}, {253}) EXCEPT !.as = Bcd] :
                 op \in {105, 233}, operand \in Bcd}
        \cup {[Plain(<<72, 169, 0, 104>>, 512, {0}, 0..255) EXCEPT !.as = {90}]}
        \cup {Plain(<<32, 20, 2, 234, 96>>, 528, {0}, 0..255)}
        \cup {[Plain(code, 512, {0}, {253}) EXCEPT
                  !.as = {90}, !.xs = {0, 1, 32, 255}, !.ys = {0, 1, 32, 255}] :
                 code \in {<<149, zp, 169, 0, 181, zp>> : zp \in {16, 240, 255}}
                          \cup {<<157, ab % 256, ab \div 256, 169, 0, 189, ab % 256, ab \div 256>> :
                                   ab \in {240, 511, 767}}
                          \cup {<<153, ab % 256, ab \div 256, 169, 0, 185, ab % 256, ab \div 256>> :
                                   ab \in {240, 511, 767}}}
        \cup {[Plain(<<150, zp, 162, 0, 182, zp>>, 512, {0}, {253}) EXCEPT
                  !.xs = {90}, !.ys = {0, 1, 32, 255}] : zp \in {16, 240, 255}}
        \cup {[Plain(<<>>, 26624, {4}, {253}) EXCEPT
                  !.rom = RomImage(<<169, 66, 133, 16, 0, 234, 64>>, 26630, 26624, 26630)]}

\* a processor about to execute the first instruction of a program
InitCpu ==
    /\ overflow_checks \in BOOLEAN
    /\ output_size \in OutputSizes
    /\ \E prog \in CpuPrograms :
          /\ memory = [NewMemory(ZeroArray, prog.rom) EXCEPT
                          !.game_ram = ArrayAt(prog.at, prog.code)]
          /\ \E p \in prog.ps, s \in prog.ss, a \in prog.as, x \in prog.xs, y \in prog.ys :
                cpu = [CpuReset(NewCpu, memory, overflow_checks) EXCEPT
                          !.pc = prog.at, !.p = p, !.s = s, !.a = a, !.x = x, !.y = y]
    /\ dvg = NewDvg
    /\ canvas = <<>>
    /\ presented = <<>>
    /\ next_nmi = NMI_CYCLES
    /\ next_tick = 0
    /\ ctl = "cpu"
    /\ panic = NoPanic
    /\ last = NoStep
    /\ nmis = 0
    /\ frames = 0
    /\ started = NewMemory(ZeroArray, ZeroArray)
    /\ trace = <<>>
    /\ prev = NoRun
    /\ horizon = 0
    /\ calls = <<>>

\* cpu.execute_instruction(&mut memory)
CpuExec ==
    /\ ctl = "cpu" /\ Len(trace) < MaxCpuSteps
    /\ \E r \in {CpuExecuteInstruction(cpu, memory, overflow_checks)} :
          /\ cpu' = r.cpu
          /\ memory' = r.memory
          /\ panic' = r.panic
          /\ ctl' = IF r.panic # NoPanic THEN "panicked" ELSE ctl
          /\ last' = [unit |-> "cpu", op |-> r.decoded.instruction, nmi |-> FALSE]
          /\ trace' = Append(trace, [op |-> r.decoded.instruction,
                                     mode |-> r.decoded.addressing_mode,
                                     opcode |-> get_byte(memory, cpu.pc), before |-> cpu])
    /\ UNCHANGED << dvg, canvas, presented, output_size, overflow_checks, next_nmi,
                    next_tick, nmis, frames, started, prev, horizon, calls >>

\* cpu.initiate_nmi(&mut memory)
CpuNmi ==
    /\ ctl = "cpu" /\ Len(trace) < MaxCpuSteps
    /\ \E n \in {CpuInitiateNmi(cpu, memory, overflow_checks)} :
          /\ cpu' = n.cpu
          /\ memory' = n.memory
          /\ panic' = n.panic
          /\ ctl' = IF n.panic # NoPanic THEN "panicked" ELSE ctl
          /\ last' = [unit |-> "cpu", op |-> "NMI", nmi |-> TRUE]
          /\ trace' = Append(trace, [op |-> "NMI", mode |-> "NA", opcode |-> -1,
                                     before |-> cpu])
    /\ nmis' = nmis + 1
    /\ UNCHANGED << dvg, canvas, presented, output_size, overflow_checks, next_nmi,
                    next_tick, frames, started, prev, horizon, calls >>

NextCpu == CpuExec \/ CpuNmi

SpecCpu == InitCpu /\ [][NextCpu]_vars

\* the documented instructions of the 6502: opcode, mnemonic, addressing mode
Documented6502 ==
    {<<0, "BRK", "imp">>, <<1, "ORA", "izx">>, <<5, "ORA", "zp">>, <<6, "ASL", "zp">>,
     <<8, "PHP", "imp">>, <<9, "ORA", "imm">>, <<10, "ASL", "acc">>, <<13, "ORA", "abs">>,
     <<14, "ASL", "abs">>, <<16, "BPL", "rel">>, <<17, "ORA", "izy">>, <<21, "ORA", "zpx">>,
     <<22, "ASL", "zpx">>, <<24, "CLC", "imp">>, <<25, "ORA", "aby">>, <<29, "ORA", "abx">>,
     <<30, "ASL", "abx">>, <<32, "JSR", "abs">>, <<33, "AND", "izx">>, <<36, "BIT", "zp">>,
     <<37, "AND", "zp">>, <<38, "ROL", "zp">>, <<40, "PLP", "imp">>, <<41, "AND", "imm">>,
     <<42, "ROL", "acc">>, <<44, "BIT", "abs">>, <<45, "AND", "abs">>, <<46, "ROL", "abs">>,
     <<48, "BMI", "rel">>, <<49, "AND", "izy">>, <<53, "AND", "zpx">>, <<54, "ROL", "zpx">>,
     <<56, "SEC", "imp">>, <<57, "AND", "aby">>, <<61, "AND", "abx">>, <<62, "ROL", "abx">>,
     <<64, "RTI", "imp">>, <<65, "EOR", "izx">>, <<69, "EOR", "zp">>, <<70, "LSR", "zp">>,
     <<72, "PHA", "imp">>, <<73, "EOR", "imm">>, <<74, "LSR", "acc">>, <<76, "JMP", "abs">>,
     <<77, "EOR", "abs">>, <<78, "LSR", "abs">>, <<80, "BVC", "rel">>, <<81, "EOR", "izy">>,
     <<85, "EOR", "zpx">>, <<86, "LSR", "zpx">>, <<88, "CLI", "imp">>, <<89, "EOR", "aby">>,
     <<93, "EOR", "abx">>, <<94, "LSR", "abx">>, <<96, "RTS", "imp">>, <<97, "ADC", "izx">>,
     <<101, "ADC", "zp">>, <<102, "ROR", "zp">>, <<104, "PLA", "imp">>, <<105, "ADC", "imm">>,
     <<106, "ROR", "acc">>, <<108, "JMP", "ind">>, <<109, "ADC", "abs">>,
     <<110, "ROR", "abs">>, <<112, "BVS", "rel">>, <<113, "ADC", "izy">>,
     <<117, "ADC", "zpx">>, <<118, "ROR", "zpx">>, <<120, "SEI", "imp">>,
     <<121, "ADC", "aby">>, <<125, "ADC", "abx">>, <<126, "ROR", "abx">>,
     <<129, "STA", "izx">>, <<132, "STY", "zp">>, <<133, "STA", "zp">>, <<134, "STX", "zp">>,
     <<136, "DEY", "imp">>, <<138, "TXA", "imp">>, <<140, "STY", "abs">>,
     <<141, "STA", "abs">>, <<142, "STX", "abs">>, <<144, "BCC", "rel">>,
     <<145, "STA", "izy">>, <<148, "STY", "zpx">>, <<149, "STA", "zpx">>,
     <<150, "STX", "zpy">>, <<152, "TYA", "imp">>, <<153, "STA", "aby">>,
     <<154, "TXS", "imp">>, <<157, "STA", "abx">>, <<160, "LDY", "imm">>,
     <<161, "LDA", "izx">>, <<162, "LDX", "imm">>, <<164, "LDY", "zp">>, <<165, "LDA", "zp">>,
     <<166, "LDX", "zp">>, <<168, "TAY", "imp">>, <<169, "LDA", "imm">>, <<170, "TAX", "imp">>,
     <<172, "LDY", "abs">>, <<173, "LDA", "abs">>, <<174, "LDX", "abs">>,
     <<176, "BCS", "rel">>, <<177, "LDA", "izy">>, <<180, "LDY", "zpx">>,
     <<181, "LDA", "zpx">>, <<182, "LDX", "zpy">>, <<184, "CLV", "imp">>,
     <<185, "LDA", "aby">>, <<186, "TSX", "imp">>, <<188, "LDY", "abx">>,
     <<189, "LDA", "abx">>, <<190, "LDX", "aby">>, <<192, "CPY", "imm">>,
     <<193, "CMP", "izx">>, <<196, "CPY", "zp">>, <<197, "CMP", "zp">>, <<198, "DEC", "zp">>,
     <<200, "INY", "imp">>, <<201, "CMP", "imm">>, <<202, "DEX", "imp">>,
     <<204, "CPY", "abs">>, <<205, "CMP", "abs">>, <<206, "DEC", "abs">>,
     <<208, "BNE", "rel">>, <<209, "CMP", "izy">>, <<213, "CMP", "zpx">>,
     <<214, "DEC", "zpx">>, <<216, "CLD", "imp">>, <<217, "CMP", "aby">>,
     <<221, "CMP", "abx">>, <<222, "DEC", "abx">>, <<224, "CPX", "imm">>,
     <<225, "SBC", "izx">>, <<228, "CPX", "zp">>, <<229, "SBC", "zp">>, <<230, "INC", "zp">>,
     <<232, "INX", "imp">>, <<233, "SBC", "imm">>, <<234, "NOP", "imp">>,
     <<236, "CPX", "abs">>, <<237, "SBC", "abs">>, <<238, "INC", "abs">>,
     <<240, "BEQ", "rel">>, <<241, "SBC", "izy">>, <<245, "SBC", "zpx">>,
     <<246, "INC", "zpx">>, <<248, "SED", "imp">>, <<249, "SBC", "aby">>,
     <<253, "SBC", "abx">>, <<254, "INC", "abx">>}

\* the AddressingMode the emulator uses for a documented addressing mode:
\* relative operands are fetched as Immediate, the operands of JMP and JSR are
\* locations
DocumentedMode(mnemonic, mode) ==
    CASE mode = "imp" -> IF mnemonic = "JSR" THEN "AbsoluteLocation" ELSE "NA"
      [] mode = "acc" -> "Accumulator"
      [] mode = "imm" -> "Immediate"
      [] mode = "rel" -> "Immediate"
      [] mode = "zp" -> "ZeroPage"
      [] mode = "zpx" -> "ZeroPageOffsetX"
      [] mode = "zpy" -> "ZeroPageOffsetY"
      [] mode = "abs" -> IF mnemonic \in {"JMP", "JSR"} THEN "AbsoluteLocation" ELSE "Absolute"
      [] mode = "abx" -> "AbsoluteOffsetX"
      [] mode = "aby" -> "AbsoluteOffsetY"
      [] mode = "izx" -> "OffsetXIndirect"
      [] mode = "izy" -> "IndirectOffsetY"
      [] mode = "ind" -> "IndirectLocation"

\* the decode fault was raised by the i-th step of the trace
DecodeFaultAt(i) == i = Len(trace) /\ panic = "Invalid op code"

\* C13: for every opcode byte, fetch_instruction either yields the mnemonic and
\* the addressing mode of the documented 6502 instruction with that opcode, or
\* panics with "Invalid op code"; it panics exactly for the opcodes that are
\* not among the 151 documented ones, and no instruction that is executed has
\* the mnemonic INVALID.
C13_DecodeMatrix ==
    /\ Cardinality(Documented6502) = 151
    /\ \A i \in 1..Len(trace) :
          trace[i].op # "NMI" =>
             LET rows == {d \in Documented6502 : d[1] = trace[i].opcode} IN
             /\ rows = {} <=> DecodeFaultAt(i)
             /\ \A d \in rows :
                   /\ trace[i].op = d[2]
                   /\ trace[i].mode = DocumentedMode(d[2], d[3])
             /\ ~DecodeFaultAt(i) => trace[i].op # "INVALID"

\* STA immediate (0x89) has raised the decode fault
C13_Witness ==
    /\ Len(trace) >= 1 /\ DecodeFaultAt(Len(trace))
    /\ trace[Len(trace)].opcode = 137

\* C14 as stated: the opcodes whose bit fields are Group B (low bits 10) with
\* STX, DEC or INC and the accumulator mode field (0x8A, 0xCA, 0xEA) raise the
\* decode fault.
C14_AccumulatorFormsFault ==
    \A i \in 1..Len(trace) :
        trace[i].opcode \in {138, 202, 234} => DecodeFaultAt(i)

\* C14 as the code has it: 0x8A, 0xCA and 0xEA are matched before the Group B
\* arm, as TXA, DEX and NOP, and are executed; the Group B arm, which would
\* reject STX, DEC and INC in accumulator mode, never sees them.
C14_AccumulatorFormsAreImplied ==
    /\ \A op \in {138, 202, 234} : op % 4 = 2 /\ (op \div 4) % 8 = 2 /\ CpuDecodeGroupB(op).bad
    /\ \A i \in 1..Len(trace) :
          trace[i].opcode \in {138, 202, 234} =>
             /\ ~DecodeFaultAt(i)
             /\ trace[i].mode = "NA"
             /\ trace[i].op = (CASE trace[i].opcode = 138 -> "TXA"
                                 [] trace[i].opcode = 202 -> "DEX"
                                 [] trace[i].opcode = 234 -> "NOP")

\* 0xCA has been executed as DEX: x went from 0 to 255
C14_Witness ==
    /\ Len(trace) >= 1 /\ trace[Len(trace)].opcode = 202
    /\ panic = NoPanic /\ trace[Len(trace)].before.x = 0 /\ cpu.x = 255

\* the last step of the trace, and whether it was an interrupt entry that completed
LastStep == trace[Len(trace)]
InterruptEntered ==
    Len(trace) >= 1 /\ LastStep.op \in {"BRK", "NMI"} /\ panic = NoPanic

\* C15 as stated: when BRK or initiate_nmi has completed, the interrupt-disable
\* flag (bit 2 of p) is set, whatever it was before.
C15_InterruptSetsIrqDisable ==
    InterruptEntered => FlagSet(cpu, 4)

\* C16 as stated: the status byte BRK stores on the stack has the break bit
\* (bit 4) set.
C16_BrkPushesBreakFlag ==
    (InterruptEntered /\ LastStep.op = "BRK") =>
        (get_byte(memory, 256 + ((LastStep.before.s + 254) % 256)) \div 16) % 2 = 1

\* C17: BRK and initiate_nmi store the high byte of the program counter at
\* 0x100 + s, its low byte one below and the status register below that (the
\* addresses wrapping inside the stack page), lower s by 3 modulo 256, load pc
\* from the word at 0xFFFE (BRK) or 0xFFFA (NMI), and add 7 to the cycle count.
\* The program counter BRK stores is the one after its opcode byte was fetched,
\* the status register is p as it was before the entry.
C17_InterruptEntry ==
    [][(ctl = "cpu" /\ last'.unit = "cpu" /\ last'.op \in {"BRK", "NMI"} /\ panic' = NoPanic) =>
          LET pushed == IF last'.op = "BRK" THEN (cpu.pc + 1) % 65536 ELSE cpu.pc
              vector == IF last'.op = "BRK" THEN 65534 ELSE 65530 IN
          /\ get_byte(memory', 256 + cpu.s) = pushed \div 256
          /\ get_byte(memory', 256 + ((cpu.s + 255) % 256)) = pushed % 256
          /\ get_byte(memory', 256 + ((cpu.s + 254) % 256)) = cpu.p
          /\ cpu'.s = (cpu.s + 253) % 256
          /\ cpu'.pc = get_byte(memory', vector) + 256 * get_byte(memory', vector + 1)
          /\ cpu'.cycle = cpu.cycle + 7]_vars

\* BRK has entered the handler from s = 1, the pushes wrapping to 0x1FF, and
\* an NMI has entered its own handler
C17_Witness ==
    \/ /\ InterruptEntered /\ LastStep.op = "BRK" /\ LastStep.before.s = 1
       /\ cpu.s = 254 /\ cpu.pc = 26624 /\ get_byte(memory, 511) = LastStep.before.p
    \/ /\ InterruptEntered /\ LastStep.op = "NMI" /\ cpu.pc = 26625 /\ LastStep.before.p = 255

\* BRK was executed and the RTI of its handler after it
BrkThenRti ==
    Len(trace) = 2 /\ trace[1].op = "BRK" /\ trace[2].op = "RTI" /\ panic = NoPanic

\* C18 as stated: BRK followed by RTI leaves the status register as it was
\* before the BRK and the program counter at the address of the BRK opcode
\* plus 2.
C18_BrkRtiRoundTrip ==
    BrkThenRti =>
        /\ cpu.p = trace[1].before.p
        /\ cpu.pc = trace[1].before.pc + 2

\* C19: PHP followed at once by PLP leaves all eight bits of p and the stack
\* pointer as they were before the PHP, for every p and for s at both ends of
\* the stack page.
C19_PhpPlpRoundTrip ==
    (Len(trace) = 2 /\ trace[1].op = "PHP" /\ trace[2].op = "PLP" /\ panic = NoPanic) =>
        /\ cpu.p = trace[1].before.p
        /\ cpu.s = trace[1].before.s
        /\ trace[2].before.s = (trace[1].before.s + 255) % 256

\* PHP; PLP ran from s = 0 with every bit of p set
C19_Witness ==
    /\ Len(trace) = 2 /\ trace[1].op = "PHP" /\ trace[2].op = "PLP" /\ panic = NoPanic
    /\ trace[1].before.s = 0 /\ trace[1].before.p = 255 /\ cpu.p = 255

\* C20 as stated: a relative branch costs 2 cycles when it is not taken, 3 when
\* it is taken to an address in the page of the instruction after it, and 4
\* when it is taken to another page, for the eight branches, every state of
\* the flag tested and every displacement, 0 included.
C20_BranchCycles ==
    (Len(trace) = 1 /\ panic = NoPanic
        /\ trace[1].opcode \in {16, 48, 80, 112, 144, 176, 208, 240}) =>
        LET before == trace[1].before
            mask == <<128, 64, 1, 2>>[(trace[1].opcode \div 64) + 1]
            taken == ((before.p \div mask) % 2 = 1) <=> ((trace[1].opcode \div 32) % 2 = 1)
            disp == get_byte(memory, before.pc + 1)
            next == before.pc + 2
            target == next + (IF disp >= 128 THEN disp - 256 ELSE disp)
        IN  /\ cpu.pc = IF taken THEN target ELSE next
            /\ cpu.cycle - before.cycle =
                  IF ~taken THEN 2
                  ELSE IF target \div 256 = next \div 256 THEN 3 ELSE 4

\* C21: an instruction that reads its operand (LDA, LDX, LDY, ADC, SBC, AND,
\* ORA, EOR, CMP) in an absolute indexed mode costs 4 cycles, and 1 more exactly
\* when base + index is in another 256-byte page than base.
C21_IndexedReadCycles ==
    (Len(trace) >= 1 /\ panic = NoPanic
        /\ LastStep.op \in {"LDA", "LDX", "LDY", "ADC", "SBC", "AND", "ORA", "EOR", "CMP"}
        /\ LastStep.mode \in {"AbsoluteOffsetX", "AbsoluteOffsetY"}) =>
        LET before == LastStep.before
            base == get_byte(memory, before.pc + 1) + 256 * get_byte(memory, before.pc + 2)
            index == IF LastStep.mode = "AbsoluteOffsetX" THEN before.x ELSE before.y
        IN  cpu.cycle - before.cycle =
                4 + (IF (base + index) \div 256 # base \div 256 THEN 1 ELSE 0)

\* LDA $00FF,X ran with X = 1 and cost 5 cycles
C21_Witness ==
    /\ Len(trace) = 1 /\ panic = NoPanic /\ LastStep.opcode = 189
    /\ LastStep.before.x = 1 /\ get_byte(memory, LastStep.before.pc + 1) = 255
    /\ get_byte(memory, LastStep.before.pc + 2) = 0
    /\ cpu.cycle - LastStep.before.cycle = 5

\* C22: ADC in binary mode leaves A = (A + operand + carry) mod 256, carry set
\* iff the sum is above 255, zero set iff the result is 0, negative equal to
\* bit 7 of the result, and overflow set iff the result is on the other side
\* of the 127/128 boundary from the accumulator it started with; the other
\* flags are kept.
C22_AdcBinary ==
    (Len(trace) >= 1 /\ panic = NoPanic /\ LastStep.op = "ADC"
        /\ LastStep.mode = "Immediate" /\ (LastStep.before.p \div 8) % 2 = 0) =>
        LET before == LastStep.before
            sum == before.a + get_byte(memory, before.pc + 1) + (before.p % 2)
            result == sum % 256
            Flag(bit) == (cpu.p \div bit) % 2 = 1
        IN  /\ cpu.a = result
            /\ Flag(1) <=> sum > 255
            /\ Flag(2) <=> result = 0
            /\ Flag(128) <=> result >= 128
            /\ Flag(64) <=> ((before.a < 128) # (result < 128))
            /\ \A bit \in {4, 8, 16, 32} : Flag(bit) <=> (before.p \div bit) % 2 = 1

\* ADC #$50 ran with A = 0x50 and carry clear: A = 0xA0, V and N set, C and Z clear
C22_Witness ==
    /\ Len(trace) = 1 /\ panic = NoPanic /\ LastStep.opcode = 105
    /\ LastStep.before.a = 80 /\ LastStep.before.p = 0
    /\ get_byte(memory, LastStep.before.pc + 1) = 80
    /\ cpu.a = 160 /\ cpu.p = 192

\* C23: the program LDA #$42; STA $10; BRK, run from reset, leaves 0x42 in RAM
\* cell 0x10; the cycle counter is 2 + 3 = 5 above its value after reset once
\* the first two instructions have run, and 7 more once BRK has run.
C23_StoreProgram ==
    LET ResetCycle == CpuReset(NewCpu, memory, overflow_checks).cycle
        Ran(n) == /\ Len(trace) = n
                  /\ trace[1].before.pc = CpuReset(NewCpu, memory, overflow_checks).pc
                  /\ trace[1].opcode = 169 /\ get_byte(memory, trace[1].before.pc + 1) = 66
                  /\ trace[2].opcode = 133 /\ get_byte(memory, trace[2].before.pc + 1) = 16
                  /\ (n = 3 => trace[3].opcode = 0)
    IN  /\ Ran(2) => /\ panic = NoPanic
                     /\ Peek(memory.game_ram, 16) = 66
                     /\ cpu.cycle = ResetCycle + 5
        /\ Ran(3) => /\ panic = NoPanic
                     /\ Peek(memory.game_ram, 16) = 66
                     /\ cpu.cycle = ResetCycle + 5 + 7

\* the three instructions ran from the reset vector with the registers of reset
C23_Witness ==
    /\ Len(trace) = 3 /\ panic = NoPanic
    /\ trace[1].before = CpuReset(NewCpu, memory, overflow_checks)
    /\ trace[1].opcode = 169 /\ trace[2].opcode = 133 /\ trace[3].opcode = 0
    /\ Peek(memory.game_ram, 16) = 66 /\ cpu.cycle = trace[1].before.cycle + 12

\* C24: the stack pointer wraps modulo 256 without a fault.  A push stores at
\* 0x0100 + s and leaves s one lower, 0xFF after 0x00; a pop moves s one
\* higher, 0x00 after 0xFF, and reads 0x0100 + s; every instruction and
\* interrupt entry that pushes writes inside 0x0100..0x01FF only; and a push
\* followed by a pop gives back the byte pushed and the pointer it began with.
C24_StackWraps ==
    [][(ctl = "cpu" /\ last'.unit = "cpu"
          /\ last'.op \in {"PHA", "PLA", "PHP", "JSR", "BRK", "NMI"}) =>
        /\ panic' = NoPanic
        /\ ChangedCells(memory.game_ram, memory'.game_ram) \subseteq 256..511
        /\ memory' = [memory EXCEPT !.game_ram = memory'.game_ram]
        /\ last'.op = "PHA" =>
              /\ cpu'.s = (cpu.s + 255) % 256
              /\ Peek(memory'.game_ram, 256 + cpu.s) = cpu.a
              /\ ChangedCells(memory.game_ram, memory'.game_ram) \subseteq {256 + cpu.s}
        /\ last'.op = "PLA" =>
              /\ cpu'.s = (cpu.s + 1) % 256
              /\ cpu'.a = Peek(memory.game_ram, 256 + cpu'.s)
              /\ memory' = memory
        /\ (Len(trace') = 3 /\ trace'[1].op = "PHA" /\ trace'[2].op = "LDA"
              /\ trace'[3].op = "PLA") =>
              /\ cpu'.a = trace'[1].before.a
              /\ cpu'.s = trace'[1].before.s]_vars

\* PHA; LDA #0; PLA ran from s = 0x00: the byte went to 0x0100, s to 0xFF and back
C24_Witness ==
    /\ Len(trace) = 3 /\ panic = NoPanic
    /\ trace[1].op = "PHA" /\ trace[1].before.s = 0 /\ trace[1].before.a = 90
    /\ trace[2].before.s = 255 /\ trace[2].op = "LDA" /\ trace[3].before.a = 0
    /\ trace[3].op = "PLA" /\ cpu.s = 0 /\ cpu.a = 90
    /\ Peek(memory.game_ram, 256) = 90

\* C25: at the end of every scheduler tick the clock latch holds the low 8
\* bits of cycle / 500, the cycle counter being at or past the 500-cycle
\* target of the tick, whatever the program wrote to the latch address.
C25_LatchAtTickEnd ==
    [][(ctl = "run" /\ last'.unit = "tick" /\ ctl' = "poll") =>
        /\ memory'.mapped_io.clck3khz = (cpu'.cycle \div TICK_CYCLES) % 256
        /\ cpu'.cycle >= next_tick'
        /\ next_tick' % TICK_CYCLES = 0]_vars

\* a tick has ended on the program that stores 0xFF in the latch in a loop
C25_Witness ==
    /\ ctl = "poll" /\ last.unit = "tick" /\ memory.game_rom = LatchWriteRom
    /\ cpu.x = 255 /\ cpu.cycle >= 1000 /\ memory.mapped_io.clck3khz = 2

\* C26: across every sequence of scheduler actions after reset the cycle
\* counter never decreases.
C26_CycleMonotonic == [][cpu'.cycle >= cpu.cycle]_vars

\* instructions, an interrupt entry and a frame have all happened
C26_Witness ==
    /\ nmis >= 1 /\ frames >= 1 /\ cpu.cycle > NMI_CYCLES /\ last.unit = "tick"

(***************************************************************************)
(* The switches: key events for every key that is bound, and the stores a  *)
(* program can make to the switch addresses, in any order.                 *)
(***************************************************************************)
\* Event::KeyDown or Event::KeyUp of a key: input::update_from_input
InputEvent ==
    /\ ctl = "bus"
    /\ \E keycode \in {"S", "RShift", "Z", "X", "Slash", "Space", "C", "A"}, active \in BOOLEAN :
          /\ memory' = update_from_input(keycode, active, memory)
          /\ last' = [unit |-> "input", op |-> keycode, nmi |-> FALSE, addr |-> 0,
                      byte |-> IF active THEN 255 ELSE 0]
    /\ UNCHANGED <<cpu, dvg, canvas, presented, output_size, overflow_checks, next_nmi,
                   next_tick, ctl, panic, nmis, frames, started, trace, prev, horizon, calls>>

\* memory.set_byte(addr, byte) at the address of a switch, at its mirror above
\* 0x8000, at the clock latch or at the RAM cell the key C writes
InputStore ==
    /\ ctl = "bus"
    /\ \E addr \in {8195, 8196, 9219, 9221, 9222, 9223, 40963, 40964, 41987, 41989, 41990,
                    41991, 8193, 83},
          byte \in {1, 127} :
          /\ memory' = set_byte(memory, addr, byte)
          /\ last' = [unit |-> "bus", op |-> "set_byte", nmi |-> FALSE, addr |-> addr,
                      byte |-> byte]
    /\ UNCHANGED <<cpu, dvg, canvas, presented, output_size, overflow_checks, next_nmi,
                   next_tick, ctl, panic, nmis, frames, started, trace, prev, horizon, calls>>

NextInput == InputEvent \/ InputStore

SpecInput == InitMem /\ [][NextInput]_vars

\* C27: in every reachable state each of the switch latches (start, fire,
\* thrust, rotate right, rotate left, hyperspace) holds 0x00 or 0xFF, whatever
\* the order of key events and of stores by the program.
C27_SwitchLatches ==
    \A sw \in {"sw1start", "swfire", "swthrust", "swrotrght", "swrotleft", "swhyper"} :
        memory.mapped_io[sw] \in {0, 255}

\* every switch is closed and the program has just stored 0x01 at the address
\* of the start switch
C27_Witness ==
    /\ \A sw \in {"sw1start", "swfire", "swthrust", "swrotrght", "swrotleft", "swhyper"} :
          memory.mapped_io[sw] = 255
    /\ last.unit = "bus" /\ last.op = "set_byte" /\ last.addr = 9219 /\ last.byte = 1

\* C28 as stated: every instruction that decodes without a fault adds at least
\* 2 cycles to the cycle counter, for every legal opcode and addressing mode,
\* LDX and STX in the zero-page-indexed-by-Y mode included; no legal
\* instruction costs 0 cycles.
C28_AtLeastTwoCycles ==
    (Len(trace) >= 1 /\ panic = NoPanic /\ LastStep.op # "NMI") =>
        cpu.cycle - LastStep.before.cycle >= 2

\* C29 as stated: for every legal opcode and every state of the registers and
\* of memory a processor step completes without a fault; the decode fault is
\* the only fault a step raises, and no address or program-counter arithmetic
\* faults by leaving the 16-bit range.
C29_OnlyDecodeFaults ==
    (Len(trace) >= 1 /\ LastStep.op # "NMI") => panic \in {NoPanic, "Invalid op code"}

(***************************************************************************)
(* The scheduler on display lists that set a position and a global scale   *)
(* factor with LABS and then draw one blank vector: positions at both ends *)
(* of both signs, every scale factor, every VCTR opcode, every local scale *)
(* of SVEC.                                                                *)
(***************************************************************************)
InitScale ==
    \E scale \in 0..15, pos \in {0, 1023, 1024, 2047} :
        \E vector \in
              {<<opcode * 4096 + field, field>> : opcode \in 0..9, field \in {1, 512, 1023}}
              \cup {<<61440 + 2048 * hi + 8 * lo + 256 * dy + (4 - dy)>> :
                       hi \in {0, 1}, lo \in {0, 1}, dy \in {1, 3}} :
            InitOn(ZeroArray, TriggerRom,
                   ListRam(<<40960 + pos, scale * 4096 + ((pos + 1024) % 2048)>>
                              \o vector \o <<45056>>), MaxDvgCycle)

SpecScale == InitScale /\ [][NextDvg]_vars

\* C30 as stated: for every VCTR opcode 0..9 and every global scale factor LABS
\* can set, the magnitude of each delta is its 10-bit field shifted by
\* s = 9 - opcode + scale: floor(field / 2^s) when s >= 0, so 0 once s exceeds
\* the width of the field, and field * 2^(-s) when s < 0, and computing it
\* never faults; the same for SVEC with s = 7 - local scale + scale.
C30_ShiftedDeltas ==
    [][(ctl = "dvg" /\ last'.unit = "dvg" /\ last'.op \in {"VCTR", "SVEC"}) =>
        LET f == IF last'.op = "VCTR"
                 THEN DvgVctrFields(dvg, DvgWordAt(memory, dvg.pc),
                                    DvgWordAt(memory, dvg.pc + 1))
                 ELSE DvgSvecFields(dvg, DvgWordAt(memory, dvg.pc))
            Claimed(field, s) == IF s >= 0 THEN field \div Pow2(s) ELSE field * Pow2(-s)
            AsClaimed(field, sh) ==
                sh.panic = NoPanic /\ sh.v = Claimed(field, f.shift_bits)
        IN  /\ AsClaimed(f.delta_x, DvgShift(f.delta_x, f.shift_bits, overflow_checks))
            /\ AsClaimed(f.delta_y, DvgShift(f.delta_y, f.shift_bits, overflow_checks))
            /\ panic' \notin {"attempt to shift right with overflow",
                              "attempt to shift left with overflow"}]_vars

\* C31: LABS sets the beam's y and x to the signed value of the 11-bit field
\* of each word (the low 10 bits, less 1024 when bit 0x400 is set, so each in
\* -1024..1023), sets the global scale factor to -n for a scale nibble n < 8
\* and to 16 - n for n >= 8 (so in -7..8), and draws nothing.
C31_Labs ==
    [][(ctl = "dvg" /\ last'.unit = "dvg" /\ last'.op = "LABS") =>
        LET Signed(w) == IF (w \div 1024) % 2 = 1 THEN (w % 1024) - 1024 ELSE w % 1024
            n == DvgWordAt(memory, dvg.pc + 1) \div 4096
        IN  /\ panic' = NoPanic
            /\ dvg'.y = Signed(DvgWordAt(memory, dvg.pc))
            /\ dvg'.x = Signed(DvgWordAt(memory, dvg.pc + 1))
            /\ dvg'.y \in -1024..1023 /\ dvg'.x \in -1024..1023
            /\ dvg'.sf = IF n < 8 THEN -n ELSE 16 - n
            /\ dvg'.sf \in -7..8
            /\ canvas' = canvas /\ presented' = presented]_vars

\* LABS has just run with y field 0x400, x field 0 and scale nibble 8
C31_Witness ==
    /\ ctl = "dvg" /\ last.unit = "dvg" /\ last.op = "LABS" /\ panic = NoPanic
    /\ dvg.y = -1024 /\ dvg.x = 0 /\ dvg.sf = 8 /\ canvas = <<>>

\* C32: in decimal mode, with an accumulator and an operand that each hold two
\* decimal digits, ADC leaves the two decimal digits of
\* (A + operand + carry) mod 100 in A and sets carry iff that decimal sum is
\* 100 or more; zero, negative and overflow follow from the result byte as in
\* binary mode.
C32_AdcDecimal ==
    LET Digits(b) == b \div 16 <= 9 /\ b % 16 <= 9
        Value(b) == 10 * (b \div 16) + (b % 16)
        Flag(bit) == (cpu.p \div bit) % 2 = 1
        Summed(a, sum) ==
            /\ cpu.a = 16 * ((sum % 100) \div 10) + (sum % 10)
            /\ Flag(1) <=> sum >= 100
            /\ Flag(2) <=> cpu.a = 0
            /\ Flag(128) <=> cpu.a >= 128
            /\ Flag(64) <=> ((a < 128) # (cpu.a < 128))
    IN  (Len(trace) >= 1 /\ LastStep.op = "ADC" /\ LastStep.mode = "Immediate"
            /\ (LastStep.before.p \div 8) % 2 = 1
            /\ Digits(LastStep.before.a)
            /\ Digits(get_byte(memory, LastStep.before.pc + 1))) =>
            /\ panic = NoPanic
            /\ Summed(LastStep.before.a,
                      Value(LastStep.before.a)
                          + Value(get_byte(memory, LastStep.before.pc + 1))
                          + (LastStep.before.p % 2))

\* ADC #$55 ran in decimal mode with A = 0x45 and carry set: A = 0x01, carry set
C32_Witness ==
    /\ Len(trace) = 1 /\ panic = NoPanic /\ LastStep.opcode = 105
    /\ LastStep.before.a = 69 /\ LastStep.before.p = 9
    /\ get_byte(memory, LastStep.before.pc + 1) = 85
    /\ cpu.a = 1 /\ cpu.p % 2 = 1

\* C33: in decimal mode, with an accumulator and an operand that each hold two
\* decimal digits, SBC leaves the two decimal digits of
\* (A - operand - (1 - carry)) mod 100 in A, sets carry iff no borrow was
\* needed, and its digit arithmetic never leaves the range of a byte.
C33_SbcDecimal ==
    LET Digits(b) == b \div 16 <= 9 /\ b % 16 <= 9
        Value(b) == 10 * (b \div 16) + (b % 16)
        Subtracted(diff) ==
            /\ cpu.a = 16 * (((diff + 100) % 100) \div 10) + ((diff + 100) % 10)
            /\ (cpu.p % 2 = 1) <=> diff >= 0
    IN  (Len(trace) >= 1 /\ LastStep.op = "SBC" /\ LastStep.mode = "Immediate"
            /\ (LastStep.before.p \div 8) % 2 = 1
            /\ Digits(LastStep.before.a)
            /\ Digits(get_byte(memory, LastStep.before.pc + 1))) =>
            /\ panic = NoPanic
            /\ Subtracted(Value(LastStep.before.a)
                              - Value(get_byte(memory, LastStep.before.pc + 1))
                              - (1 - (LastStep.before.p % 2)))

\* SBC #$19 ran in decimal mode with A = 0x10 and carry clear: A = 0x90, carry clear
C33_Witness ==
    /\ Len(trace) = 1 /\ panic = NoPanic /\ LastStep.opcode = 233
    /\ LastStep.before.a = 16 /\ LastStep.before.p = 8 /\ overflow_checks
    /\ get_byte(memory, LastStep.before.pc + 1) = 25
    /\ cpu.a = 144 /\ cpu.p % 2 = 0

\* C34: a zero-page indexed operand resolves to (operand + index) mod 256, in
\* 0x00..0xFF; an absolute indexed operand resolves to operand + index, not
\* masked to 8 bits; and a store and a load through the same mode with the same
\* registers resolve to the same address: the load gives back the byte stored.
C34_IndexedAddress ==
    [][(ctl = "cpu" /\ last'.unit = "cpu" /\ panic' = NoPanic
          /\ last'.op \in {"STA", "STX", "STY", "LDA", "LDX", "LDY"}
          /\ trace'[Len(trace')].mode \in {"ZeroPageOffsetX", "ZeroPageOffsetY",
                                          "AbsoluteOffsetX", "AbsoluteOffsetY"}) =>
        LET mode == trace'[Len(trace')].mode
            Register(c) == CASE last'.op \in {"STA", "LDA"} -> c.a
                             [] last'.op \in {"STX", "LDX"} -> c.x
                             [] OTHER -> c.y
            index == IF mode \in {"ZeroPageOffsetX", "AbsoluteOffsetX"} THEN cpu.x ELSE cpu.y
            lo == get_byte(memory, cpu.pc + 1)
            ea == IF mode \in {"ZeroPageOffsetX", "ZeroPageOffsetY"}
                  THEN (lo + index) % 256
                  ELSE (lo + 256 * get_byte(memory, cpu.pc + 2) + index) % 65536
        IN  /\ last'.op \in {"STA", "STX", "STY"} =>
                  /\ ChangedCells(memory.game_ram, memory'.game_ram) \subseteq {ea}
                  /\ get_byte(memory', ea) = Register(cpu)
                  /\ cpu' = [cpu EXCEPT !.pc = cpu'.pc, !.previous_pc = cpu'.previous_pc,
                                        !.cycle = cpu'.cycle]
            /\ last'.op \in {"LDA", "LDX", "LDY"} =>
                  /\ Register(cpu') = get_byte(memory, ea)
                  /\ memory' = memory
            /\ (Len(trace') = 3 /\ trace'[1].mode = mode /\ trace'[2].mode = "Immediate"
                  /\ trace'[1].op \in {"STA", "STX"} /\ trace'[2].op = last'.op
                  /\ last'.op \in {"LDA", "LDX"}) =>
                  Register(cpu') = Register(trace'[1].before)]_vars

\* STA $FF,X; LDA #0; LDA $FF,X ran with X = 1: the byte went to 0x0000 and came back
C34_Witness ==
    /\ Len(trace) = 3 /\ panic = NoPanic
    /\ trace[1].opcode = 149 /\ trace[1].before.x = 1 /\ trace[1].before.a = 90
    /\ trace[3].opcode = 181 /\ trace[3].before.a = 0
    /\ Peek(memory.game_ram, 0) = 90 /\ Peek(memory.game_ram, 256) = 0 /\ cpu.a = 90

\* C35: after every instruction that produces a result byte in A, X, Y or
\* memory (loads, transfers other than TXS, logical and arithmetic operations,
\* shifts and rotates, increments and decrements, PLA) the zero flag says
\* whether the result byte is 0 and the negative flag is its bit 7; TXS,
\* stores, pushes, jumps and branches leave the two flags as they were.
C35_ZeroAndNegative ==
    (Len(trace) >= 1 /\ panic = NoPanic /\ LastStep.op # "NMI") =>
        LET op == LastStep.op
            mode == LastStep.mode
            before == LastStep.before
            lo == get_byte(memory, before.pc + 1)
            word == lo + 256 * get_byte(memory, before.pc + 2)
            ea == CASE mode = "ZeroPage" -> lo
                    [] mode = "ZeroPageOffsetX" -> (lo + before.x) % 256
                    [] mode = "Absolute" -> word
                    [] OTHER -> (word + before.x) % 65536
            Zero == (cpu.p \div 2) % 2 = 1
            Negative == (cpu.p \div 128) % 2 = 1
            FromResult(byte) == (Zero <=> byte = 0) /\ (Negative <=> byte >= 128)
        IN  /\ op \in {"LDA", "TXA", "TYA", "PLA", "AND", "ORA", "EOR", "ADC", "SBC"} =>
                  FromResult(cpu.a)
            /\ op \in {"LDX", "TAX", "TSX", "INX", "DEX"} => FromResult(cpu.x)
            /\ op \in {"LDY", "TAY", "INY", "DEY"} => FromResult(cpu.y)
            /\ op \in {"ASL", "LSR", "ROL", "ROR", "INC", "DEC"} =>
                  FromResult(IF mode = "Accumulator" THEN cpu.a ELSE get_byte(memory, ea))
            /\ op \in {"TXS", "STA", "STX", "STY", "PHA", "PHP", "JMP", "JSR",
                       "BCC", "BCS", "BEQ", "BMI", "BNE", "BPL", "BVC", "BVS"} =>
                  /\ Zero <=> (before.p \div 2) % 2 = 1
                  /\ Negative <=> (before.p \div 128) % 2 = 1

\* DEC $10 ran on a cell holding 0 with every flag clear: the cell holds
\* 0xFF, zero is clear and negative is set
C35_Witness ==
    /\ Len(trace) = 1 /\ panic = NoPanic /\ LastStep.opcode = 198
    /\ LastStep.before.p = 0 /\ Peek(memory.game_ram, 16) = 255
    /\ (cpu.p \div 2) % 2 = 0 /\ (cpu.p \div 128) % 2 = 1

\* C36: a JSR followed by the matching RTS resumes at the instruction right
\* after the 3-byte JSR and leaves the stack pointer as it was before the JSR,
\* for every value of the stack pointer, those that wrap included.
C36_JsrRtsRoundTrip ==
    (Len(trace) = 2 /\ trace[1].op = "JSR" /\ trace[2].op = "RTS") =>
        /\ panic = NoPanic
        /\ trace[2].before.pc = get_byte(memory, trace[1].before.pc + 1)
                                   + 256 * get_byte(memory, trace[1].before.pc + 2)
        /\ trace[2].before.s = (trace[1].before.s + 254) % 256
        /\ cpu.pc = trace[1].before.pc + 3
        /\ cpu.s = trace[1].before.s

\* JSR at 0x0210 and RTS ran from s = 0x00: the return address 0x0212 went to
\* 0x0100 and 0x01FF
C36_Witness ==
    /\ Len(trace) = 2 /\ trace[1].op = "JSR" /\ trace[2].op = "RTS" /\ panic = NoPanic
    /\ trace[1].before.s = 0 /\ trace[2].before.s = 254 /\ cpu.s = 0
    /\ Peek(memory.game_ram, 256) = 2 /\ Peek(memory.game_ram, 511) = 18
    /\ cpu.pc = 531

\* C37: whenever the processor executes an instruction the halt latch is 0, so
\* a read of 0x2002 by the program returns 0; the latch is non-zero only
\* between the start of a DVG run and its HALT instruction, and HALT is the
\* last instruction a run executes.
C37_HaltLatchHidden ==
    [][/\ (ctl = "run" /\ last'.unit = "cpu") =>
              memory.mapped_io.halt = 0 /\ get_byte(memory, 8194) = 0
       /\ memory.mapped_io.halt # 0 => ctl \in {"dvg", "panicked"}
       /\ memory'.mapped_io.halt # 0 => ctl' \in {"dvg", "panicked"}
       /\ (ctl = "dvg" /\ ctl' = "run") =>
              last.unit = "dvg" /\ last.op = "HALT" /\ memory.mapped_io.halt = 0
       /\ (ctl = "dvg" /\ last'.unit = "dvg" /\ last.unit = "dvg") => last.op # "HALT"]_vars

\* the processor has executed an instruction after a run that HALT ended
C37_Witness ==
    /\ last.unit = "cpu" /\ frames >= 1 /\ panic = NoPanic
    /\ Len(prev.trace) >= 2 /\ prev.trace[Len(prev.trace)] = "HALT"
    /\ prev.start.mapped_io.halt = 255 /\ memory.mapped_io.halt = 0

\* C38: the clock-latch values written at the end of consecutive scheduler
\* ticks differ by exactly 1 modulo 256: a tick ends with the cycle counter at
\* or past its 500-cycle target and less than one interval beyond it (at most
\* one instruction and one interrupt entry), so no clock tick is skipped.
\* The value written at the end of the tick before is the quotient the target
\* was computed from, (next_tick / 500) - 1; on a program that does not store
\* to the latch it is also the value the latch still holds.
C38_LatchCountsTicks ==
    [][(ctl = "run" /\ last'.unit = "tick" /\ ctl' = "poll") =>
        LET before == ((next_tick \div TICK_CYCLES) - 1) % 256
        IN  /\ cpu.cycle >= next_tick
            /\ cpu.cycle - next_tick < TICK_CYCLES
            /\ cpu.cycle - next_tick < 7 + 7
            /\ memory'.mapped_io.clck3khz = (before + 1) % 256
            /\ memory.game_rom \notin {LatchWriteRom, BadOpcodeRom} =>
                  memory'.mapped_io.clck3khz = (memory.mapped_io.clck3khz + 1) % 256]_vars

\* the tick in which the interrupt was entered has ended, the twelfth
C38_Witness ==
    /\ ctl = "poll" /\ last.unit = "tick" /\ nmis = 1
    /\ memory.mapped_io.clck3khz = 12 /\ cpu.cycle >= 12 * TICK_CYCLES

\* C39 as stated: an input event (key down or key up, of any key) changes at
\* most the one switch latch it names and nothing else on the bus: working
\* RAM, display-list RAM, the clock, halt, begin-frame and sound latches are
\* all as they were.
C39_KeyEventFrame ==
    [][(ctl = "bus" /\ last'.unit = "input") =>
        \E sw \in {"sw1start", "swfire", "swthrust", "swrotrght", "swrotleft", "swhyper"} :
            memory' = [memory EXCEPT !.mapped_io[sw] = memory'.mapped_io[sw]]]_vars

=============================================================================
